---- MODULE Spec2Model ----
(***************************************************************************)
(* Bibliography metadata resolution (src/src/utils/bibliographyMetadata.ts) *)
(* and its caller get_records_by_citation_key.                             *)
(*                                                                         *)
(* Strings are sequences of Unicode code points (a value in 55296..57343   *)
(* is a lone surrogate).  Lit turns a tuple of one-character strings into  *)
(* such a sequence, so that the literals of the source stay readable.      *)
(***************************************************************************)
EXTENDS Integers, Sequences, FiniteSets, TLC

(***************************************************************************)
(* Characters and JavaScript string primitives                             *)
(***************************************************************************)
Printable ==
  << " ", "!", "\"", "#", "$", "%", "&", "'", "(", ")", "*", "+", ",", "-", ".", "/",
     "0", "1", "2", "3", "4", "5", "6", "7", "8", "9", ":", ";", "<", "=", ">", "?",
     "@", "A", "B", "C", "D", "E", "F", "G", "H", "I", "J", "K", "L", "M", "N", "O",
     "P", "Q", "R", "S", "T", "U", "V", "W", "X", "Y", "Z", "[", "\\", "]", "^", "_",
     "grave", "a", "b", "c", "d", "e", "f", "g", "h", "i", "j", "k", "l", "m", "n", "o",
     "p", "q", "r", "s", "t", "u", "v", "w", "x", "y", "z", "{", "|", "}", "~" >>

\* ("grave" stands for the grave accent, which a TLA+ string cannot hold.)
CodePoint ==
  [c \in {Printable[i] : i \in 1..Len(Printable)} |->
     31 + (CHOOSE i \in 1..Len(Printable) : Printable[i] = c)]

Ord(c) == CodePoint[c]

Lit(t) == [i \in 1..Len(t) |-> Ord(t[i])]

Ch(c) == Ord(c)

\* The code points String.prototype.trim and the regular expression \s treat
\* as white space.
WhiteSpace ==
  {9, 10, 11, 12, 13, 32, 160, 5760, 8232, 8233, 8239, 8287, 12288, 65279}
    \cup (8192..8202)

\* The line terminators the regular expression "." does not match.
LineTerminators == {10, 13, 8232, 8233}

Drop(s, n) == SubSeq(s, n + 1, Len(s))

Take(s, n) == SubSeq(s, 1, n)

trimStart(s) ==
  Drop(s, CHOOSE i \in 0..Len(s) :
            /\ \A j \in 1..i : s[j] \in WhiteSpace
            /\ (i = Len(s) \/ s[i + 1] \notin WhiteSpace))

trimEnd(s) ==
  Take(s, CHOOSE i \in 0..Len(s) :
            /\ \A j \in (i + 1)..Len(s) : s[j] \in WhiteSpace
            /\ (i = 0 \/ s[i] \notin WhiteSpace))

trim(s) == trimEnd(trimStart(s))

\* toLowerCase on the Basic Latin and Latin-1 letters.
lowerChar(c) ==
  IF (c >= 65 /\ c <= 90) \/ (c >= 192 /\ c <= 222 /\ c # 215) THEN c + 32 ELSE c

toLowerCase(s) == [i \in 1..Len(s) |-> lowerChar(s[i])]

startsWith(s, pre) == Len(s) >= Len(pre) /\ Take(s, Len(pre)) = pre

endsWith(s, suf) == Len(s) >= Len(suf) /\ Drop(s, Len(s) - Len(suf)) = suf

\* s.indexOf(sub, from) with 0-based positions; -1 when absent.
indexOfFrom(s, sub, from) ==
  LET first(hits) == IF hits = {} THEN -1 ELSE CHOOSE i \in hits : \A j \in hits : i <= j
  IN  first({i \in from..(Len(s) - Len(sub)) : SubSeq(s, i + 1, i + Len(sub)) = sub})

indexOf(s, sub) == indexOfFrom(s, sub, 0)

lastIndexOf(s, sub) ==
  LET last(hits) == IF hits = {} THEN -1 ELSE CHOOSE i \in hits : \A j \in hits : i >= j
  IN  last({i \in 0..(Len(s) - Len(sub)) : SubSeq(s, i + 1, i + Len(sub)) = sub})

includes(s, sub) == indexOf(s, sub) # -1

RECURSIVE replaceAllChar(_, _, _)
\* s.replace(/c/g, rep) for a one-character pattern.
replaceAllChar(s, c, rep) ==
  IF s = <<>> THEN <<>>
  ELSE (IF Head(s) = c THEN rep ELSE <<Head(s)>>) \o replaceAllChar(Tail(s), c, rep)

\* s.replace(pat, rep) with a string pattern: the first occurrence only.
replaceFirst(s, pat, rep) ==
  LET at(i) == IF i = -1 THEN s ELSE Take(s, i) \o rep \o Drop(s, i + Len(pat))
  IN  at(indexOf(s, pat))

RECURSIVE splitOn(_, _)
\* s.split(c) for a one-character separator.
splitOn(s, c) ==
  LET at(i) == IF i = -1 THEN <<s>> ELSE <<Take(s, i)>> \o splitOn(Drop(s, i + 1), c)
  IN  at(indexOf(s, <<c>>))

RECURSIVE joinWith(_, _)
joinWith(parts, sep) ==
  IF parts = <<>> THEN <<>>
  ELSE IF Len(parts) = 1 THEN parts[1]
  ELSE parts[1] \o sep \o joinWith(Tail(parts), sep)

\* Array.from(new Set(xs)): first occurrences, in order.
RECURSIVE uniqueInOrder(_)
uniqueInOrder(xs) ==
  IF xs = <<>> THEN <<>>
  ELSE LET front == uniqueInOrder(Take(xs, Len(xs) - 1))
           last == xs[Len(xs)]
       IN  IF \E i \in 1..Len(front) : front[i] = last THEN front ELSE Append(front, last)

IsDigit(c) == c >= 48 /\ c <= 57

IsAsciiLetter(c) == (c >= 65 /\ c <= 90) \/ (c >= 97 /\ c <= 122)

\* \w of a regular expression without the u flag.
IsWordChar(c) == IsAsciiLetter(c) \/ IsDigit(c) \/ c = 95

(***************************************************************************)
(* Platform functions the engine calls: encodeURI, decodeURI, the POSIX    *)
(* path module, os.homedir, pathToFileURL and fileURLToPath.  A call that  *)
(* throws yields Threw, which is no string.                                *)
(***************************************************************************)
Threw == <<0 - 1>>

\* try { return result } catch { return fallback }
orElse(result, fallback) == IF result = Threw THEN fallback ELSE result

RECURSIVE concatAll(_)
concatAll(parts) == IF parts = <<>> THEN <<>> ELSE Head(parts) \o concatAll(Tail(parts))

\* xs.map(f)
mapEach(xs, f(_)) == [i \in 1..Len(xs) |-> f(xs[i])]

HexDigits == Lit(<<"0", "1", "2", "3", "4", "5", "6", "7", "8", "9", "A", "B", "C", "D", "E", "F">>)

percentByte(b) == <<37, HexDigits[(b \div 16) + 1], HexDigits[(b % 16) + 1]>>

utf8(cp) ==
  IF cp < 128 THEN <<cp>>
  ELSE IF cp < 2048 THEN <<192 + (cp \div 64), 128 + (cp % 64)>>
  ELSE IF cp < 65536
    THEN <<224 + (cp \div 4096), 128 + ((cp \div 64) % 64), 128 + (cp % 64)>>
  ELSE <<240 + (cp \div 262144), 128 + ((cp \div 4096) % 64),
         128 + ((cp \div 64) % 64), 128 + (cp % 64)>>

percentEncode(cp) ==
  LET bytes == utf8(cp) IN concatAll([i \in 1..Len(bytes) |-> percentByte(bytes[i])])

IsSurrogate(cp) == cp >= 55296 /\ cp <= 57343

\* uriReserved and "#": encodeURI leaves them alone, decodeURI does not
\* decode an escape that stands for one of them.
UriReservedPlusHash ==
  {Ch(";"), Ch("/"), Ch("?"), Ch(":"), Ch("@"), Ch("&"), Ch("="), Ch("+"), Ch("$"),
   Ch(","), Ch("#")}

UriUnescaped ==
  {c \in 33..126 : IsAsciiLetter(c) \/ IsDigit(c)}
    \cup {Ch("-"), Ch("_"), Ch("."), Ch("!"), Ch("~"), Ch("*"), Ch("'"), Ch("("), Ch(")")}

\* encodeURI(s): URIError on a lone surrogate.
encodeURI(s) ==
  IF \E i \in 1..Len(s) : IsSurrogate(s[i]) THEN Threw
  ELSE concatAll([i \in 1..Len(s) |->
         IF s[i] \in UriReservedPlusHash \cup UriUnescaped THEN <<s[i]>>
         ELSE percentEncode(s[i])])

hexVal(c) ==
  IF IsDigit(c) THEN c - 48
  ELSE IF c >= 65 /\ c <= 70 THEN c - 55
  ELSE IF c >= 97 /\ c <= 102 THEN c - 87
  ELSE 0 - 1

\* The byte of the escape "%XX" at position i of s, or -1.
escapeAt(s, i) ==
  IF i + 2 <= Len(s) /\ s[i] = 37 /\ hexVal(s[i + 1]) >= 0 /\ hexVal(s[i + 2]) >= 0
  THEN 16 * hexVal(s[i + 1]) + hexVal(s[i + 2])
  ELSE 0 - 1

orThrew(front, rest) == IF rest = Threw THEN Threw ELSE front \o rest

RECURSIVE decodeFrom(_, _, _)
\* Decode (ECMA-262) at the escape at position i, whose byte is b (-1: it is
\* malformed): escapes are UTF-8 octets.
decodeEscape(s, i, reservedSet, b) ==
  LET n == IF b >= 192 /\ b <= 223 THEN 2
           ELSE IF b >= 224 /\ b <= 239 THEN 3
           ELSE IF b >= 240 /\ b <= 247 THEN 4
           ELSE 0
      cont(k) == escapeAt(s, i + 3 * k)
      least == IF n = 2 THEN 128 ELSE IF n = 3 THEN 2048 ELSE 65536
      decoded(cp) ==
        IF cp < least \/ cp > 1114111 \/ IsSurrogate(cp) THEN Threw
        ELSE orThrew(<<cp>>, decodeFrom(s, i + 3 * n, reservedSet))
  IN  IF b < 0 THEN Threw
      ELSE IF b < 128
        THEN orThrew(IF b \in reservedSet THEN SubSeq(s, i, i + 2) ELSE <<b>>,
                     decodeFrom(s, i + 3, reservedSet))
      ELSE IF n = 0 THEN Threw
      ELSE IF \E k \in 1..(n - 1) : cont(k) < 128 \/ cont(k) > 191 THEN Threw
      ELSE decoded(IF n = 2 THEN (b - 192) * 64 + (cont(1) - 128)
                   ELSE IF n = 3
                     THEN (b - 224) * 4096 + (cont(1) - 128) * 64 + (cont(2) - 128)
                   ELSE (b - 240) * 262144 + (cont(1) - 128) * 4096
                          + (cont(2) - 128) * 64 + (cont(3) - 128))

\* Decode from position i; an escape of a character in reservedSet is kept
\* as written.
decodeFrom(s, i, reservedSet) ==
  IF i > Len(s) THEN <<>>
  ELSE IF s[i] # 37 THEN orThrew(<<s[i]>>, decodeFrom(s, i + 1, reservedSet))
  ELSE decodeEscape(s, i, reservedSet, escapeAt(s, i))

decodeURI(s) == decodeFrom(s, 1, UriReservedPlusHash)

decodeURIComponent(s) == decodeFrom(s, 1, {})

\* process.cwd() and os.homedir() of the modelled process.
Cwd == Lit(<<"/", "w">>)

HomeDir == Lit(<<"/", "h">>)

Slash == Ch("/")

Backslash == Ch("\\")

RECURSIVE normalizeSegments(_, _, _)
\* normalizeString of the path module over the "/"-separated segments.
normalizeSegments(segs, acc, allowAboveRoot) ==
  IF segs = <<>> THEN acc
  ELSE LET seg == Head(segs)
       IN  normalizeSegments(Tail(segs),
                             IF seg = <<>> \/ seg = Lit(<<".">>) THEN acc
                             ELSE IF seg = Lit(<<".", ".">>)
                               THEN IF acc # <<>> /\ acc[Len(acc)] # Lit(<<".", ".">>)
                                      THEN Take(acc, Len(acc) - 1)
                                    ELSE IF allowAboveRoot THEN Append(acc, seg)
                                    ELSE acc
                             ELSE Append(acc, seg),
                             allowAboveRoot)

normalizeString(p, allowAboveRoot) ==
  joinWith(normalizeSegments(splitOn(p, Slash), <<>>, allowAboveRoot), <<Slash>>)

\* path.posix.resolve(p), against the working directory.
pathResolve(p) ==
  <<Slash>> \o normalizeString(IF startsWith(p, <<Slash>>) THEN p
                               ELSE IF p = <<>> THEN Cwd
                               ELSE Cwd \o <<Slash>> \o p,
                               FALSE)

\* path.posix.normalize(p).
pathNormalize(p) ==
  IF p = <<>> THEN Lit(<<".">>)
  ELSE LET isAbsolute == p[1] = Slash
           trailing == p[Len(p)] = Slash
           dotted(body) == IF body = <<>> /\ ~isAbsolute THEN Lit(<<".">>) ELSE body
           slashed(body) == IF body # <<>> /\ trailing THEN body \o <<Slash>> ELSE body
       IN  (IF isAbsolute THEN <<Slash>> ELSE <<>>)
             \o slashed(dotted(normalizeString(p, ~isAbsolute)))

\* path.posix.join(a, b).
pathJoin(a, b) ==
  LET joined == IF a = <<>> THEN b
                ELSE IF b = <<>> THEN a
                ELSE a \o <<Slash>> \o b
  IN  IF joined = <<>> THEN Lit(<<".">>) ELSE pathNormalize(joined)

\* The path percent-encode set of the URL standard.
InPathPercentEncodeSet(c) ==
  \/ c < 32
  \/ c > 126
  \/ c \in {Ch(" "), Ch("\""), Ch("#"), Ch("<"), Ch(">"), Ch("?"), Ch("grave"),
            Ch("{"), Ch("}")}

urlPathEncode(s) ==
  concatAll([i \in 1..Len(s) |->
    IF IsSurrogate(s[i]) THEN percentEncode(65533)
    ELSE IF InPathPercentEncodeSet(s[i]) THEN percentEncode(s[i])
    ELSE <<s[i]>>])

IsDriveLetter(seg) ==
  Len(seg) = 2 /\ IsAsciiLetter(seg[1]) /\ seg[2] \in {Ch(":"), Ch("|")}

IsSingleDot(seg) == toLowerCase(seg) \in {Lit(<<".">>), Lit(<<"%", "2", "e">>)}

IsDoubleDot(seg) ==
  toLowerCase(seg) \in {Lit(<<".", ".">>), Lit(<<".", "%", "2", "e">>),
                        Lit(<<"%", "2", "e", ".">>), Lit(<<"%", "2", "e", "%", "2", "e">>)}

RECURSIVE urlPathSegments(_, _)
\* The path state of the URL parser for a file: URL, over the raw segments.
urlPathSegments(segs, path) ==
  IF segs = <<>> THEN path
  ELSE LET seg == Head(segs)
           isLast == Len(segs) = 1
           ended(path2) == IF isLast THEN Append(path2, <<>>) ELSE path2
       IN  urlPathSegments(
             Tail(segs),
             IF IsDoubleDot(seg)
               THEN ended(IF path = <<>> \/ (Len(path) = 1 /\ IsDriveLetter(path[1])
                                               /\ path[1][2] = Ch(":"))
                          THEN path ELSE Take(path, Len(path) - 1))
             ELSE IF IsSingleDot(seg) THEN ended(path)
             ELSE IF path = <<>> /\ IsDriveLetter(seg) THEN Append(path, <<seg[1], Ch(":")>>)
             ELSE Append(path, urlPathEncode(seg)))

\* The pathname of a file: URL whose path, after its first slash, is raw:
\* "\" separates like "/".
urlPathOf(raw) ==
  <<Slash>>
    \o joinWith(urlPathSegments(splitOn(replaceAllChar(raw, Backslash, <<Slash>>), Slash), <<>>),
                <<Slash>>)

\* The same when raw comes from a URL string: the path ends at "?" or "#".
urlPathname(raw) ==
  LET cut == {i \in 1..Len(raw) : raw[i] \in {Ch("?"), Ch("#")}}
  IN  urlPathOf(IF cut = {} THEN raw
                ELSE Take(raw, (CHOOSE i \in cut : \A j \in cut : i <= j) - 1))

RECURSIVE encodePathChars(_)
\* encodePathChars of node:url, applied before the pathname is set.
encodePathChars(s) ==
  IF s = <<>> THEN <<>>
  ELSE (IF Head(s) = 37 THEN Lit(<<"%", "2", "5">>)
        ELSE IF Head(s) = Backslash THEN Lit(<<"%", "5", "C">>)
        ELSE IF Head(s) = 10 THEN Lit(<<"%", "0", "A">>)
        ELSE IF Head(s) = 13 THEN Lit(<<"%", "0", "D">>)
        ELSE IF Head(s) = 9 THEN Lit(<<"%", "0", "9">>)
        ELSE <<Head(s)>>) \o encodePathChars(Tail(s))

FileScheme == Lit(<<"f", "i", "l", "e", ":", "/", "/">>)

\* pathToFileURL(filepath).toString() on a POSIX host.
pathToFileURL(filepath) ==
  LET slashed(resolved) ==
        IF filepath # <<>> /\ filepath[Len(filepath)] = Slash
             /\ resolved[Len(resolved)] # Slash
        THEN resolved \o <<Slash>> ELSE resolved
  IN  FileScheme \o urlPathOf(Drop(encodePathChars(slashed(pathResolve(filepath))), 1))

\* getPathFromURLPosix of node:url on the pathname of the URL.
getPathFromURLPosix(pathname) ==
  IF includes(toLowerCase(pathname), Lit(<<"%", "2", "f">>)) THEN Threw
  ELSE decodeURIComponent(pathname)

\* fileURLToPath on the host of the URL and what follows it: the host is
\* empty, a drive letter (which then starts the path) or localhost.
getPathFromHost(host, rest) ==
  IF ~(\/ host = <<>>
       \/ IsDriveLetter(host)
       \/ toLowerCase(decodeURIComponent(host)) = Lit(<<"l", "o", "c", "a", "l", "h", "o", "s", "t">>)) THEN Threw
  ELSE getPathFromURLPosix(
         urlPathname(IF IsDriveLetter(host) THEN host \o rest
                     ELSE IF rest # <<>> /\ rest[1] \in {Slash, Backslash} THEN Drop(rest, 1)
                     ELSE rest))

\* fileURLToPath on the input the URL parser is left with: the host runs up
\* to "/", "\", "?" or "#".
getPathFromInput(input) ==
  LET afterScheme == Drop(input, Len(FileScheme))
      ends == {i \in 1..Len(afterScheme) :
                 afterScheme[i] \in {Slash, Backslash, Ch("?"), Ch("#")}}
      hostLen == IF ends = {} THEN Len(afterScheme)
                 ELSE (CHOOSE i \in ends : \A j \in ends : i <= j) - 1
  IN  IF ~startsWith(toLowerCase(input), FileScheme) THEN Threw
      ELSE getPathFromHost(Take(afterScheme, hostLen), Drop(afterScheme, hostLen))

\* fileURLToPath(url) on a POSIX host, for a string that starts with
\* "file://" in any letter case; Threw for a host other than localhost, an
\* encoded slash or a malformed escape.  The URL parser strips leading and
\* trailing C0 control or space, and removes ASCII tab and newline.
fileURLToPath(url) ==
  getPathFromInput(
    SelectSeq(SubSeq(url,
                     (CHOOSE i \in 0..Len(url) :
                        /\ \A j \in 1..i : url[j] <= 32
                        /\ (i = Len(url) \/ url[i + 1] > 32)) + 1,
                     CHOOSE i \in 0..Len(url) :
                        /\ \A j \in (i + 1)..Len(url) : url[j] <= 32
                        /\ (i = 0 \/ url[i] > 32)),
              LAMBDA c : c \notin {9, 10, 13}))

(***************************************************************************)
(* Path canonicalizer and attachment heuristics                            *)
(***************************************************************************)
\* null or undefined where a string is expected.
NullStr == <<0 - 2>>

\* if (/^file:\/\//i.test(result)) try { result = fileURLToPath(result) } catch {}
convertFileUrl(trimmed) ==
  IF startsWith(toLowerCase(trimmed), FileScheme) THEN orElse(fileURLToPath(trimmed), trimmed)
  ELSE trimmed

normalizeComparisonString(value) ==
  replaceAllChar(convertFileUrl(trim(value)), Backslash, <<Slash>>)

\* The list generatePathVariants returns when encodeURI throws.
VariantsThrew == <<Threw>>

\* The variants added to the set, in order, before they are normalized.
addedVariants(normalized, encoded, fileUrl) ==
  LET colon == <<Ch(":")>>
      withColonForms(p) ==
        <<p>> \o (IF startsWith(p, <<Slash>>) THEN <<colon \o p, colon \o p \o colon>>
                  ELSE <<>>)
  IN  uniqueInOrder(withColonForms(normalized)
                      \o withColonForms(encoded)
                      \o <<fileUrl, replaceFirst(fileUrl, FileScheme, <<>>)>>
                      \o <<replaceAllChar(normalized, Ch(" "), <<Backslash, Ch(" ")>>),
                           replaceAllChar(normalized, Ch(" "), Lit(<<"%", "2", "0">>))>>)

generatePathVariants(finderPath) ==
  LET normalized == replaceAllChar(finderPath, Backslash, <<Slash>>)
  IN  IF encodeURI(normalized) = Threw THEN VariantsThrew
      ELSE mapEach(addedVariants(normalized, encodeURI(normalized), pathToFileURL(normalized)),
               normalizeComparisonString)

generateFinderPathVariants(finderPath) == generatePathVariants(finderPath)

matchStringAgainstVariants(value, variants) ==
  LET matches(normalizedValue) ==
        \E i \in 1..Len(variants) :
          \/ normalizedValue = variants[i]
          \/ includes(normalizedValue, variants[i])
  IN  matches(normalizeComparisonString(value))

decodeUriSafe(value) == orElse(decodeURI(value), value)

expandHomeDirectory(value) ==
  IF startsWith(value, Lit(<<"~", "/">>)) /\ HomeDir # <<>>
  THEN pathJoin(HomeDir, Drop(value, 2))
  ELSE value

PATH_HINT_KEYS ==
  {Lit(<<"p", "a", "t", "h">>), Lit(<<"l", "o", "c", "a", "l", "P", "a", "t", "h">>), Lit(<<"f", "i", "l", "e">>), Lit(<<"u", "r", "i">>), Lit(<<"u", "r", "l">>), Lit(<<"r", "e", "l", "a", "t", "i", "v", "e", "P", "a", "t", "h">>)}

AttachmentExtensions ==
  {Lit(<<"p", "d", "f">>), Lit(<<"d", "o", "c">>), Lit(<<"d", "o", "c", "x">>), Lit(<<"p", "p", "t">>), Lit(<<"p", "p", "t", "x">>), Lit(<<"r", "t", "f">>), Lit(<<"t", "x", "t">>), Lit(<<"m", "d">>),
   Lit(<<"h", "t", "m">>), Lit(<<"h", "t", "m", "l">>), Lit(<<"e", "p", "u", "b">>), Lit(<<"z", "i", "p">>), Lit(<<"g", "z">>), Lit(<<"x", "l", "s">>), Lit(<<"x", "l", "s", "x">>), Lit(<<"c", "s", "v">>),
   Lit(<<"p", "n", "g">>), Lit(<<"j", "p", "g">>), Lit(<<"j", "p", "e", "g">>), Lit(<<"g", "i", "f">>), Lit(<<"t", "i", "f", "f">>), Lit(<<"h", "e", "i", "c">>)}

ATTACHMENT_EXTENSION_REGEX(s) ==
  \E ext \in AttachmentExtensions : endsWith(toLowerCase(s), <<Ch(".")>> \o ext)

\* normalizeAttachmentPath from its second statement on.
normalizeTrimmedPath(trimmed, normalized) ==
  IF trimmed = <<>> THEN NullStr
  ELSE IF normalized = <<>> THEN NullStr
  ELSE expandHomeDirectory(
         decodeUriSafe(IF startsWith(normalized, <<Ch(":")>>) THEN Drop(normalized, 1)
                       ELSE normalized))

\* normalizeAttachmentPath: NullStr for null.
normalizeAttachmentPath(value) ==
  normalizeTrimmedPath(trim(value), normalizeComparisonString(trim(value)))

NonLocalSchemes == {Lit(<<"h", "t", "t", "p", ":", "/", "/">>), Lit(<<"h", "t", "t", "p", "s", ":", "/", "/">>), Lit(<<"z", "o", "t", "e", "r", "o", ":", "/", "/">>), Lit(<<"a", "t", "t", "a", "c", "h", "m", "e", "n", "t", ":", "/", "/">>)}

\* keyHint is NullStr when the caller passes none.
isLikelyLocalAttachment(value, keyHint) ==
  LET likely(trimmed, normalized) ==
        IF trimmed = <<>> THEN FALSE
        ELSE IF \E scheme \in NonLocalSchemes : startsWith(toLowerCase(trimmed), scheme)
          THEN FALSE
        ELSE IF keyHint # NullStr /\ keyHint # <<>> /\ keyHint \in PATH_HINT_KEYS THEN TRUE
        ELSE IF \/ startsWith(normalized, <<Slash>>)
                \/ startsWith(normalized, <<Ch("~")>>)
                \/ startsWith(normalized, <<Ch(":")>>) THEN TRUE
        ELSE IF /\ Len(trimmed) >= 3
                /\ IsAsciiLetter(trimmed[1])
                /\ trimmed[2] = Ch(":")
                /\ trimmed[3] \in {Backslash, Slash} THEN TRUE
        ELSE ATTACHMENT_EXTENSION_REGEX(normalized)
  IN  likely(trim(value), normalizeComparisonString(trim(value)))

(***************************************************************************)
(* JSON values as JSON.parse returns them.  An object keeps its members in *)
(* the order of the text (one member per key); ownKeys gives the order in  *)
(* which Object.keys and Object.entries enumerate them.                    *)
(***************************************************************************)
JString(s) == [t |-> "string", s |-> s]

JArray(a) == [t |-> "array", a |-> a]

JObject(o) == [t |-> "object", o |-> o]

JNull == [t |-> "null"]

JNumber(n) == [t |-> "number", n |-> n]

JBool(b) == [t |-> "boolean", b |-> b]

Member(k, v) == [k |-> k, v |-> v]

Undefined == [t |-> "undefined"]

\* A null result where the source returns an object or null.
Null == [t |-> "null"]

IsString(v) == v.t = "string"

IsArray(v) == v.t = "array"

\* typeof v === "object" for a non-null v: a plain object or an array.
IsObjectLike(v) == v.t \in {"object", "array"}

\* JavaScript truthiness of a JSON value.
Truthy(v) ==
  CASE v.t = "null" -> FALSE
    [] v.t = "undefined" -> FALSE
    [] v.t = "boolean" -> v.b
    [] v.t = "number" -> v.n # 0
    [] v.t = "string" -> v.s # <<>>
    [] OTHER -> TRUE

RECURSIVE decimal(_)
\* String(n) for a natural number.
decimal(n) == IF n < 10 THEN <<48 + n>> ELSE decimal(n \div 10) \o <<48 + (n % 10)>>

\* a < b for two strings of digits of the same length.
digitsLess(a, b) ==
  \E i \in 1..Len(a) : a[i] < b[i] /\ \A j \in 1..(i - 1) : a[j] = b[j]

\* a <= b as numbers, for two canonical strings of digits.
indexLeq(a, b) == Len(a) < Len(b) \/ (Len(a) = Len(b) /\ (a = b \/ digitsLess(a, b)))

\* A property key that is an array index (a canonical number below 2^32 - 1):
\* enumerated first, in numeric order.
IsArrayIndex(k) ==
  /\ k # <<>>
  /\ \A i \in 1..Len(k) : IsDigit(k[i])
  /\ (Len(k) = 1 \/ k[1] # 48)
  /\ (Len(k) < 10 \/ (Len(k) = 10 /\ digitsLess(k, Lit(<<"4", "2", "9", "4", "9", "6", "7", "2", "9", "5">>))))

RECURSIVE sortByIndex(_)
sortByIndex(ms) ==
  LET first(least) ==
        <<ms[least]>>
          \o sortByIndex(SubSeq(ms, 1, least - 1) \o SubSeq(ms, least + 1, Len(ms)))
  IN  IF ms = <<>> THEN <<>>
      ELSE first(CHOOSE i \in 1..Len(ms) : \A j \in 1..Len(ms) : indexLeq(ms[i].k, ms[j].k))

\* Object.entries of a plain object given by its members in creation order.
ownEntries(members) ==
  sortByIndex(SelectSeq(members, LAMBDA m : IsArrayIndex(m.k)))
    \o SelectSeq(members, LAMBDA m : ~IsArrayIndex(m.k))

\* source[key] for a parsed value used as a record: an array has no such
\* property for the keys the engine asks for.
getProp(source, key) ==
  IF source.t = "object" /\ \E i \in 1..Len(source.o) : source.o[i].k = key
  THEN source.o[CHOOSE i \in 1..Len(source.o) : source.o[i].k = key].v
  ELSE Undefined

(***************************************************************************)
(* Structured-export walker and descriptor builder                         *)
(***************************************************************************)
\* if (normalized) paths.add(normalized)
addPath(normalized) ==
  IF normalized # NullStr /\ normalized # <<>> THEN <<normalized>> ELSE <<>>

RECURSIVE visitAttachments(_, _)
\* visit of collectJsonAttachmentPaths: the paths added, in order of visit.
visitAttachments(value, keyHint) ==
  IF IsString(value)
    THEN IF isLikelyLocalAttachment(value.s, keyHint)
         THEN addPath(normalizeAttachmentPath(value.s))
         ELSE <<>>
  ELSE IF IsArray(value)
    THEN concatAll(mapEach(value.a, LAMBDA child : visitAttachments(child, keyHint)))
  ELSE IF value.t = "object"
    THEN concatAll(mapEach(ownEntries(value.o), LAMBDA m : visitAttachments(m.v, m.k)))
  ELSE <<>>

collectJsonAttachmentPaths(item) == uniqueInOrder(visitAttachments(item, NullStr))

RECURSIVE getFirstStringFromKeys(_, _)
getFirstStringFromKeys(source, keys) ==
  IF keys = <<>> THEN NullStr
  ELSE LET candidate == getProp(source, Head(keys))
       IN  IF IsString(candidate) /\ trim(candidate.s) # <<>> THEN trim(candidate.s)
           ELSE getFirstStringFromKeys(source, Tail(keys))

\* Mutant: the keys are compared in the case they are written in.
normalizeKey_caseSensitive(value) == trim(value)

normalizeKey(value) == toLowerCase(trim(value))

RECURSIVE findMatchingTopLevelField(_, _, _)
findMatchingTopLevelField(source, keys, target) ==
  IF keys = <<>> THEN Null
  ELSE LET candidate == getProp(source, Head(keys))
       IN  IF IsString(candidate) /\ normalizeKey(candidate.s) = normalizeKey(target)
           THEN [value |-> candidate.s, field |-> Head(keys), propertyPath |-> <<Head(keys)>>]
           ELSE findMatchingTopLevelField(source, Tail(keys), target)

CitationKeyFields == <<Lit(<<"c", "i", "t", "a", "t", "i", "o", "n", "K", "e", "y">>), Lit(<<"c", "i", "t", "a", "t", "i", "o", "n", "k", "e", "y">>), Lit(<<"i", "d">>)>>

BibliographyIdFields == <<Lit(<<"b", "i", "b", "l", "i", "o", "g", "r", "a", "p", "h", "y", "I", "d">>), Lit(<<"z", "o", "t", "e", "r", "o", "_", "i", "d">>), Lit(<<"k", "e", "y">>), Lit(<<"i", "d">>)>>

buildJsonDescriptor(item) ==
  [source |-> "json",
   citationKey |-> getFirstStringFromKeys(item, CitationKeyFields),
   bibliographyId |-> getFirstStringFromKeys(item, BibliographyIdFields),
   title |-> getFirstStringFromKeys(item, <<Lit(<<"t", "i", "t", "l", "e">>)>>),
   attachmentPaths |-> collectJsonAttachmentPaths(item)]

getJsonEntries(data) ==
  IF IsArray(data) THEN data.a
  ELSE IF data.t = "object"
    THEN IF IsArray(getProp(data, Lit(<<"i", "t", "e", "m", "s">>))) THEN getProp(data, Lit(<<"i", "t", "e", "m", "s">>)).a
         ELSE <<data>>
  ELSE <<>>

indexSegment(index) == Lit(<<"[">>) \o decimal(index) \o Lit(<<"]">>)

RECURSIVE findPathInJsonValue(_, _, _)
RECURSIVE findPathInChildren(_, _, _)
\* The first non-null result among the children, given as <<segment, value>>
\* pairs in the order the loops of findPathInJsonValue visit them.
findPathInChildren(children, variants, propertyPath) ==
  IF children = <<>> THEN Null
  ELSE LET childResult == findPathInJsonValue(Head(children)[2], variants,
                                              Append(propertyPath, Head(children)[1]))
       IN  IF childResult # Null THEN childResult
           ELSE findPathInChildren(Tail(children), variants, propertyPath)

findPathInJsonValue(value, variants, propertyPath) ==
  LET inEntries(entries) ==
        findPathInChildren([i \in 1..Len(entries) |-> <<entries[i].k, entries[i].v>>],
                           variants, propertyPath)
  IN  IF IsString(value)
        THEN IF matchStringAgainstVariants(value.s, variants)
             THEN [path |-> propertyPath, matchValue |-> value.s]
             ELSE Null
      ELSE IF IsArray(value)
        THEN findPathInChildren([i \in 1..Len(value.a) |-> <<indexSegment(i - 1), value.a[i]>>],
                                variants, propertyPath)
      ELSE IF value.t = "object" THEN inEntries(ownEntries(value.o))
      ELSE Null

RECURSIVE lookupInJsonEntries(_, _, _)
\* The loop of lookupInJson over the entries: it returns at the first entry
\* that matches.
lookupInJsonEntries(entries, variants, filePath) ==
  LET entry == Head(entries)
      found(matchResult, descriptor) ==
        IF matchResult = Null THEN lookupInJsonEntries(Tail(entries), variants, filePath)
        ELSE [success |-> TRUE,
              source |-> "json",
              item |-> entry,
              matchType |-> "path",
              matchValue |-> matchResult.matchValue,
              propertyPath |-> matchResult.path,
              descriptor |-> descriptor,
              metadataFile |-> filePath,
              matchedField |-> IF Len(matchResult.path) > 0
                               THEN matchResult.path[Len(matchResult.path)]
                               ELSE NullStr]
  IN  IF entries = <<>> THEN Null
      ELSE IF ~IsObjectLike(entry) THEN lookupInJsonEntries(Tail(entries), variants, filePath)
      ELSE found(findPathInJsonValue(entry, variants, <<>>), buildJsonDescriptor(entry))

\* lookupInJson after its read: parsed is what readJsonCache returned.
lookupInJson(finderPath, filePath, parsed) ==
  IF ~Truthy(parsed) THEN Null
  ELSE lookupInJsonEntries(getJsonEntries(parsed), generatePathVariants(finderPath), filePath)

RECURSIVE lookupCitationInJsonEntries(_, _, _)
\* The loop of lookupCitationInJson over the entries.
lookupCitationInJsonEntries(entries, citationKey, filePath) ==
  LET item == Head(entries)
      found(descriptor, matchInfo) ==
        IF matchInfo = Null THEN lookupCitationInJsonEntries(Tail(entries), citationKey, filePath)
        ELSE [success |-> TRUE,
              source |-> "json",
              item |-> item,
              matchType |-> "citationKey",
              matchValue |-> matchInfo.value,
              propertyPath |-> matchInfo.propertyPath,
              descriptor |-> descriptor,
              metadataFile |-> filePath,
              matchedField |-> matchInfo.field]
  IN  IF entries = <<>> THEN Null
      ELSE IF ~IsObjectLike(item)
        THEN lookupCitationInJsonEntries(Tail(entries), citationKey, filePath)
      ELSE found(buildJsonDescriptor(item),
                 findMatchingTopLevelField(item, CitationKeyFields, citationKey))

\* lookupCitationInJson after its read.
lookupCitationInJson(citationKey, filePath, parsed) ==
  IF ~Truthy(parsed) THEN Null
  ELSE lookupCitationInJsonEntries(getJsonEntries(parsed), citationKey, filePath)

(***************************************************************************)
(* Entry-text parser.  Positions are 0-based as in the source; charAt      *)
(* gives the character at a position, or -1 past the end (undefined).      *)
(***************************************************************************)
charAt(s, index) == IF index >= 0 /\ index < Len(s) THEN s[index + 1] ELSE 0 - 1

\* s.slice(from, to) for from >= 0.
slice(s, from, to) ==
  LET stop == IF to < 0 THEN (IF Len(s) + to < 0 THEN 0 ELSE Len(s) + to)
              ELSE IF to > Len(s) THEN Len(s) ELSE to
  IN  IF stop <= from THEN <<>> ELSE SubSeq(s, from + 1, stop)

IsSpaceOrComma(c) == c \in WhiteSpace \/ c = Ch(",")

\* The first position from index on whose character fails test, or the length.
skipWhile(s, index, test(_)) ==
  CHOOSE i \in index..Len(s) :
    /\ \A j \in index..(i - 1) : test(charAt(s, j))
    /\ (i = Len(s) \/ ~test(charAt(s, i)))

RECURSIVE scanBraced(_, _, _, _)
\* The "{" loop of parseBibValue.
scanBraced(value, index, depth, result) ==
  IF ~(index < Len(value) /\ depth > 0) THEN [result |-> result, index |-> index]
  ELSE LET currentChar == charAt(value, index)
           depth2 == IF currentChar = Ch("{") THEN depth + 1
                     ELSE IF currentChar = Ch("}") THEN depth - 1
                     ELSE depth
       IN  scanBraced(value, index + 1, depth2,
                      IF depth2 > 0 THEN Append(result, currentChar) ELSE result)

RECURSIVE scanQuoted(_, _, _)
\* The '"' loop of parseBibValue.
scanQuoted(value, index, result) ==
  IF ~(index < Len(value)) THEN [result |-> result, index |-> index]
  ELSE LET currentChar == charAt(value, index)
       IN  IF currentChar = Ch("\"") /\ charAt(value, index - 1) # Backslash
           THEN [result |-> result, index |-> index + 1]
           ELSE scanQuoted(value, index + 1, Append(result, currentChar))

\* parseBibValue on state {value, index}: the value returned and the index
\* left in the state.
parseBibValue(value, index0) ==
  LET trimmed(scanned) == [result |-> trim(scanned.result), index |-> scanned.index]
      unquoted(index, bare) == [result |-> slice(value, index, bare), index |-> bare]
      at(index) ==
        LET startChar == charAt(value, index)
        IN  IF index >= Len(value) THEN [result |-> <<>>, index |-> index]
            ELSE IF startChar = Ch("{") THEN trimmed(scanBraced(value, index + 1, 1, <<>>))
            ELSE IF startChar = Ch("\"") THEN trimmed(scanQuoted(value, index + 1, <<>>))
            ELSE trimmed(unquoted(index,
                                  skipWhile(value, index, LAMBDA c : c # Ch(",") /\ c # 10)))
  IN  at(skipWhile(value, index0, IsSpaceOrComma))

IsFieldKeyChar(c) == IsAsciiLetter(c) \/ IsDigit(c) \/ c = Ch("_") \/ c = Ch("-")

\* fields[key] = value on a record that enumerates in creation order.
setField(fields, key, value) ==
  IF \E i \in 1..Len(fields) : fields[i].k = key
  THEN [i \in 1..Len(fields) |-> IF fields[i].k = key THEN Member(key, value) ELSE fields[i]]
  ELSE Append(fields, Member(key, value))

RECURSIVE parseBibFieldsFrom(_, _, _)
\* The outer loop of parseBibFields, from state.index = index.
parseBibFieldsFrom(body, index, fields) ==
  IF ~(index < Len(body)) THEN fields
  ELSE LET start == skipWhile(body, index, IsSpaceOrComma)
           keyEnd == skipWhile(body, start, IsFieldKeyChar)
           key == trim(slice(body, start, keyEnd))
           afterKey == skipWhile(body, keyEnd, LAMBDA c : c \in WhiteSpace)
           assigned(parsed) ==
             parseBibFieldsFrom(body, parsed.index,
                                setField(fields, toLowerCase(key), parsed.result))
       IN  IF start >= Len(body) THEN fields
           ELSE IF key = <<>> THEN parseBibFieldsFrom(body, keyEnd + 1, fields)
           ELSE IF charAt(body, afterKey) # Ch("=")
             THEN parseBibFieldsFrom(body, afterKey + 1, fields)
           ELSE assigned(parseBibValue(body, afterKey + 1))

parseBibFields(body) == parseBibFieldsFrom(body, 0, <<>>)

\* parseBibEntry: the header is /^@(\w+)\s*\{\s*([^,]+),/.
parseBibEntry(entryText) ==
  LET typeEnd == skipWhile(entryText, 1, IsWordChar)
      braceAt == skipWhile(entryText, typeEnd, LAMBDA c : c \in WhiteSpace)
      keyFrom == skipWhile(entryText, braceAt + 1, LAMBDA c : c \in WhiteSpace)
      comma == indexOfFrom(entryText, <<Ch(",")>>, braceAt + 1)
      \* \s* gives back one character when nothing else is left for the key.
      keyStart == IF comma = keyFrom /\ keyFrom > braceAt + 1 THEN keyFrom - 1 ELSE keyFrom
      matched == /\ charAt(entryText, 0) = Ch("@")
                 /\ typeEnd > 1
                 /\ charAt(entryText, braceAt) = Ch("{")
                 /\ comma # 0 - 1
                 /\ comma > keyStart
  IN  IF ~matched THEN Null
      ELSE [type |-> slice(entryText, 1, typeEnd),
            key |-> trim(slice(entryText, keyStart, comma)),
            fields |-> parseBibFields(slice(entryText, comma + 1,
                                            lastIndexOf(entryText, <<Ch("}")>>))),
            rawEntry |-> trim(entryText)]

RECURSIVE braceEnd(_, _, _)
\* The inner loop of findBibEntries: <<currentIndex, depth>> when it stops.
braceEnd(content, currentIndex, depth) ==
  IF ~(currentIndex < Len(content) /\ depth > 0) THEN <<currentIndex, depth>>
  ELSE LET char == charAt(content, currentIndex)
           depth2 == IF char = Ch("{") THEN depth + 1
                     ELSE IF char = Ch("}") THEN depth - 1
                     ELSE depth
       IN  braceEnd(content, currentIndex + 1, depth2)

RECURSIVE findBibEntriesFrom(_, _)
findBibEntriesFrom(content, index) ==
  IF ~(index < Len(content)) THEN <<>>
  ELSE LET start == indexOfFrom(content, <<Ch("@")>>, index)
           braceIndex == indexOfFrom(content, <<Ch("{")>>, start)
           stop == braceEnd(content, braceIndex + 1, 1)
       IN  IF start = 0 - 1 THEN <<>>
           ELSE IF braceIndex = 0 - 1 THEN <<>>
           ELSE IF stop[2] = 0
             THEN <<slice(content, start, stop[1])>> \o findBibEntriesFrom(content, stop[1])
           ELSE <<>>

findBibEntries(content) == findBibEntriesFrom(content, 0)

\* The entries readBibCache builds from the text of the file.
parseBibContent(content) ==
  SelectSeq(mapEach(findBibEntries(content), parseBibEntry), LAMBDA parsed : parsed # Null)

(***************************************************************************)
(* Text-export descriptor and lookups                                      *)
(***************************************************************************)
\* entry.fields[name], NullStr when undefined.
fieldValue(fields, name) ==
  IF \E i \in 1..Len(fields) : fields[i].k = name
  THEN fields[CHOOSE i \in 1..Len(fields) : fields[i].k = name].v
  ELSE NullStr

\* A segment of the file field against /^([^:]+):(.+):([^:]+)$/: the path
\* group, or NullStr without a match.
fileSegmentPath(segment) ==
  LET group(firstColon, lastColon, middle) ==
        IF /\ firstColon >= 1
           /\ lastColon > firstColon + 1
           /\ lastColon < Len(segment) - 1
           /\ \A i \in 1..Len(middle) : middle[i] \notin LineTerminators
        THEN middle
        ELSE NullStr
      between(firstColon, lastColon) ==
        group(firstColon, lastColon, slice(segment, firstColon + 1, lastColon))
  IN  between(indexOf(segment, <<Ch(":")>>), lastIndexOf(segment, <<Ch(":")>>))

\* match ? normalizeAttachmentPath(match[2]) : null
segmentAttachmentPath(pathGroup) ==
  IF pathGroup = NullStr THEN NullStr ELSE normalizeAttachmentPath(pathGroup)

parseBibFileField(value) ==
  SelectSeq(mapEach(SelectSeq(mapEach(splitOn(value, Ch(";")), trim), LAMBDA s : s # <<>>),
                LAMBDA segment : segmentAttachmentPath(fileSegmentPath(segment))),
            LAMBDA p : p # NullStr /\ p # <<>>)

\* The paths one field of the entry adds.
fieldAttachmentPaths(m) ==
  IF toLowerCase(m.k) = Lit(<<"f", "i", "l", "e">>) THEN parseBibFileField(m.v)
  ELSE IF m.k \in PATH_HINT_KEYS /\ isLikelyLocalAttachment(m.v, m.k)
    THEN addPath(normalizeAttachmentPath(m.v))
  ELSE <<>>

collectBibAttachmentPaths(entry) ==
  uniqueInOrder(concatAll(mapEach(ownEntries(entry.fields), fieldAttachmentPaths)))

buildBibDescriptor(entry) ==
  LET firstDefined(a, b, c) == IF a # NullStr THEN a ELSE IF b # NullStr THEN b ELSE c
  IN  [source |-> "bib",
       citationKey |-> entry.key,
       bibliographyId |-> firstDefined(fieldValue(entry.fields, Lit(<<"z", "o", "t", "e", "r", "o", "_", "i", "d">>)),
                                       fieldValue(entry.fields, Lit(<<"i", "d">>)),
                                       fieldValue(entry.fields, Lit(<<"c", "i", "t", "a", "t", "i", "o", "n", "k", "e", "y">>))),
       title |-> fieldValue(entry.fields, Lit(<<"t", "i", "t", "l", "e">>)),
       attachmentPaths |-> collectBibAttachmentPaths(entry)]

\* null where readBibCache returns an entry list or null.
NullEntries == <<Null>>

RECURSIVE lookupInBibEntries(_, _, _)
RECURSIVE lookupInBibFields(_, _, _, _)
\* The inner loop of lookupInBib, over the fields of the first entry that
\* are left: it returns at the first field that matches.
lookupInBibFields(fields, entries, variants, filePath) ==
  LET parsed == Head(entries)
      field == Head(fields)
  IN  IF fields = <<>> THEN lookupInBibEntries(Tail(entries), variants, filePath)
      ELSE IF matchStringAgainstVariants(field.v, variants)
        THEN [success |-> TRUE,
              source |-> "bib",
              entry |-> parsed,
              rawEntry |-> parsed.rawEntry,
              matchType |-> "path",
              matchValue |-> field.v,
              descriptor |-> buildBibDescriptor(parsed),
              metadataFile |-> filePath,
              matchedField |-> field.k]
      ELSE lookupInBibFields(Tail(fields), entries, variants, filePath)

\* The outer loop of lookupInBib, over the entries.
lookupInBibEntries(entries, variants, filePath) ==
  IF entries = <<>> THEN Null
  ELSE lookupInBibFields(ownEntries(Head(entries).fields), entries, variants, filePath)

\* lookupInBib after its read: entries is what readBibCache returned.
lookupInBib(finderPath, filePath, entries) ==
  IF entries = NullEntries THEN Null
  ELSE lookupInBibEntries(entries, generatePathVariants(finderPath), filePath)

BibCandidateFields == <<Lit(<<"c", "i", "t", "a", "t", "i", "o", "n", "k", "e", "y">>), Lit(<<"z", "o", "t", "e", "r", "o", "_", "i", "d">>), Lit(<<"i", "d">>)>>

\* Mutant: a match on a candidate field reports the entry's own key as the
\* value matched.
matchCitationInEntry_reportsOwnKey(parsed, descriptor, normalizedTarget) ==
  LET hits == {i \in 1..Len(BibCandidateFields) :
                 /\ fieldValue(parsed.fields, BibCandidateFields[i]) # NullStr
                 /\ normalizeKey(fieldValue(parsed.fields, BibCandidateFields[i]))
                      = normalizedTarget}
  IN  IF descriptor.citationKey # <<>>
           /\ normalizeKey(descriptor.citationKey) = normalizedTarget
        THEN [matchValue |-> descriptor.citationKey, matchedField |-> Lit(<<"k", "e", "y">>)]
      ELSE IF hits # {}
        THEN [matchValue |-> descriptor.citationKey,
              matchedField |-> BibCandidateFields[CHOOSE i \in hits : \A j \in hits : i <= j]]
      ELSE Null

\* What lookupCitationInBib finds in one entry, whose descriptor it has
\* built: the matched field name and value, or Null.
matchCitationInEntry(parsed, descriptor, normalizedTarget) ==
  LET hits == {i \in 1..Len(BibCandidateFields) :
                 /\ fieldValue(parsed.fields, BibCandidateFields[i]) # NullStr
                 /\ normalizeKey(fieldValue(parsed.fields, BibCandidateFields[i]))
                      = normalizedTarget}
      candidate(fieldKey) ==
        [matchValue |-> fieldValue(parsed.fields, fieldKey), matchedField |-> fieldKey]
  IN  IF descriptor.citationKey # <<>>
           /\ normalizeKey(descriptor.citationKey) = normalizedTarget
        THEN [matchValue |-> descriptor.citationKey, matchedField |-> Lit(<<"k", "e", "y">>)]
      ELSE IF hits # {}
        THEN candidate(BibCandidateFields[CHOOSE i \in hits : \A j \in hits : i <= j])
      ELSE Null

RECURSIVE lookupCitationInBibEntries(_, _, _)
\* The loop of lookupCitationInBib over the entries.
lookupCitationInBibEntries(entries, normalizedTarget, filePath) ==
  LET parsed == Head(entries)
      matched(descriptor, found) ==
        IF found = Null
        THEN lookupCitationInBibEntries(Tail(entries), normalizedTarget, filePath)
        ELSE [success |-> TRUE,
              source |-> "bib",
              entry |-> parsed,
              rawEntry |-> parsed.rawEntry,
              matchType |-> "citationKey",
              matchValue |-> found.matchValue,
              descriptor |-> descriptor,
              metadataFile |-> filePath,
              matchedField |-> found.matchedField]
      built(descriptor) ==
        matched(descriptor, matchCitationInEntry(parsed, descriptor, normalizedTarget))
  IN  IF entries = <<>> THEN Null
      ELSE built(buildBibDescriptor(parsed))

\* lookupCitationInBib after its read.
lookupCitationInBib(citationKey, filePath, entries) ==
  IF entries = NullEntries THEN Null
  ELSE lookupCitationInBibEntries(entries, normalizeKey(citationKey), filePath)

(***************************************************************************)
(* The file system, the process environment and the module-level CACHE     *)
(***************************************************************************)
\* What a path holds: nothing, something readFile fails on (a directory, a
\* file without read permission), or a file.  The text of a file is given
\* either as the value JSON.parse returns for it, as text JSON.parse rejects
\* (Garbage), or as the characters of a BibTeX export.
Absent == [kind |-> "absent"]

Unreadable == [kind |-> "unreadable"]

JsonText(value) == [kind |-> "file", form |-> "json", value |-> value]

Garbage == [kind |-> "file", form |-> "garbage"]

BibText(text) == [kind |-> "file", form |-> "text", text |-> text]

\* fs.access(path) resolves.
Exists(content) == content.kind # "absent"

\* fs.readFile(path, "utf8") resolves.
Readable(content) == content.kind = "file"

\* JSON.parse(raw) returns.
JsonParses(content) == content.form = "json"

JsonFile == "/lib/export.json"

BibFile == "/lib/export.bib"

Files == {JsonFile, BibFile}

\* undefined and null where a path is expected; "" is the empty string.
UndefinedPath == "<undefined>"

NullPath == "<null>"

\* a ?? b
Coalesce(a, b) == IF a \in {UndefinedPath, NullPath} THEN b ELSE a

\* if (path)
Configured(path) == path \notin {UndefinedPath, NullPath, ""}

EmptyMap == [f \in {} |-> Null]

\* Mutant: the map is never found to hold the path.
CacheHas_never(map, key) == FALSE

\* map.has(key)
CacheHas(map, key) == key \in DOMAIN map

\* map.set(key, value)
MapSet(map, key, value) ==
  [f \in DOMAIN map \cup {key} |-> IF f = key THEN value ELSE map[f]]

(***************************************************************************)
(* Sample exports and queries                                              *)
(***************************************************************************)
SmithPdf == Lit(<<"/", "L", "/", "S", "m", "i", "t", "h", " ", "2", "4", ".", "p", "d", "f">>)

GarciaPdf == Lit(<<"/", "L", "/", "G", "a", "r", "c", "i", "a", ".", "p", "d", "f">>)

SmithKey == Lit(<<"s", "m", "i", "t", "h", "2", "0", "2", "4", "d", "e", "e", "p">>)

GarciaKey == Lit(<<"g", "a", "r", "c", "i", "a", "2", "0", "2", "1">>)

\* [{"id": "smith2024deep", "title": "Deep", "attachments": [{"localPath": SmithPdf}]}]
JsonSmith ==
  JArray(<<JObject(<<Member(Lit(<<"i", "d">>), JString(SmithKey)),
                     Member(Lit(<<"t", "i", "t", "l", "e">>), JString(Lit(<<"D", "e", "e", "p">>))),
                     Member(Lit(<<"a", "t", "t", "a", "c", "h", "m", "e", "n", "t", "s">>),
                            JArray(<<JObject(<<Member(Lit(<<"l", "o", "c", "a", "l", "P", "a", "t", "h">>), JString(SmithPdf))>>)>>))>>)>>)

\* {"items": [{"citationKey": "garcia2021", "path": GarciaPdf}]}
JsonGarcia ==
  JObject(<<Member(Lit(<<"i", "t", "e", "m", "s">>),
                   JArray(<<JObject(<<Member(Lit(<<"c", "i", "t", "a", "t", "i", "o", "n", "K", "e", "y">>), JString(GarciaKey)),
                                      Member(Lit(<<"p", "a", "t", "h">>), JString(GarciaPdf))>>)>>))>>)

BibSmith ==
  Lit(<<"@", "a", "r", "t", "i", "c", "l", "e", "{", "s", "m", "i", "t", "h", "2", "0", "2", "4", "d", "e", "e", "p", ",">>) \o <<10>>
    \o Lit(<<" ", "t", "i", "t", "l", "e", " ", "=", " ", "{", "D", "e", "e", "p", "}", ",">>) \o <<10>>
    \o Lit(<<" ", "f", "i", "l", "e", " ", "=", " ", "{", "P", "D", "F", ":", "/", "L", "/", "S", "m", "i", "t", "h", " ", "2", "4", ".", "p", "d", "f", ":", "a", "p", "p", "l", "i", "c", "a", "t", "i", "o", "n", "/", "p", "d", "f", "}">>) \o <<10>> \o Lit(<<"}">>)

BibGarcia == Lit(<<"@", "i", "n", "p", "r", "o", "c", "e", "e", "d", "i", "n", "g", "s", "{", "G", "a", "r", "c", "i", "a", "2", "0", "2", "1", ",", " ", "f", "i", "l", "e", " ", "=", " ", "{", "P", "D", "F", ":", "/", "L", "/", "G", "a", "r", "c", "i", "a", ".", "p", "d", "f", ":", "a", "p", "p", "l", "i", "c", "a", "t", "i", "o", "n", "/", "p", "d", "f", "}", "}">>)

\* The contents the environment gives the two export files.
JsonContents == <<Garbage, JsonText(JsonSmith), JsonText(JsonGarcia)>>

BibContents == <<Unreadable, BibText(BibSmith), BibText(BibGarcia)>>

ContentsOf(file) == IF file = JsonFile THEN JsonContents ELSE BibContents

FinderPaths == <<SmithPdf>>

CitationKeys == <<Lit(<<" ", "S", "m", "i", "t", "h", "2", "0", "2", "4", "D", "e", "e", "p">>), Lit(<<" ", " ">>)>>

\* The values a caller passes for an export path.
PathChoices(file) == IF file = JsonFile THEN {UndefinedPath, "", file} ELSE {UndefinedPath, file}

(***************************************************************************)
(* State.  fs: what each path holds.  env: process.env.  CACHE: the two    *)
(* maps of the module.  lk: for each caller, the frame of its lookup: the  *)
(* locals of lookupBibliographyMetadataByPath / ...ByCitationKey, where it *)
(* is suspended (pc), how it ended (outcome, result), and io, the file     *)
(* system calls and cache probes it has made so far.                       *)
(***************************************************************************)
VARIABLES fs, env, CACHE, lk

vars == <<fs, env, CACHE, lk>>

Procs == {"p1"}

EnvChoices ==
  {[BIBLIOGRAPHY_JSON |-> UndefinedPath, BIBLIOGRAPHY_BIB |-> UndefinedPath],
   [BIBLIOGRAPHY_JSON |-> JsonFile, BIBLIOGRAPHY_BIB |-> BibFile]}

\* The options argument of a lookup; a missing property is undefined.
Options(oj, ob) == [jsonPath |-> oj, bibPath |-> ob]

\* Marks a source whose content the lookup has not matched against.
Unused == [t |-> "unused"]

UnusedEntries == <<Unused>>

IdleFrame ==
  [pc |-> "idle", kind |-> "none", query |-> <<>>, trimmedKey |-> <<>>,
   jsonPath |-> NullPath, bibPath |-> NullPath, errors |-> <<>>, attempted |-> FALSE,
   buf |-> Absent, outcome |-> "none", result |-> Null, io |-> <<>>, origin |-> "none",
   used |-> [json |-> Unused, bib |-> UnusedEntries]]

Failure(errors) == [success |-> FALSE, errors |-> errors]

\* The diagnostics; a template literal is the tuple of its parts.
NotFoundError(label, path) == <<label, " metadata file not found at ", path>>

NoMatchError(f, label, path) ==
  IF f.kind = "path" THEN <<"No matching entry found in ", label, " metadata at ", path>>
  ELSE <<"No entry with citation key '", f.trimmedKey, "' in ", label, " metadata at ", path>>

NotConfiguredError(f) ==
  <<"No Bibliography metadata files configured. Provide BIBLIOGRAPHY_JSON or BIBLIOGRAPHY_BIB, or call ",
    IF f.kind = "path" THEN "lookupBibliographyMetadataByPath"
    ELSE "lookupBibliographyMetadataByCitationKey",
    " with explicit paths.">>

EmptyKeyError == <<"Citation key must not be empty">>

\* io records each file system call and cache probe with its outcome; stale
\* notes a probe that found content cached while the path held something
\* else on disk.
Logged(f, op, path, ok) ==
  [f EXCEPT !.io = Append(@, [op |-> op, path |-> path, ok |-> ok])]

\* Mutant: errors = [error] in place of errors.push(error).
Pushed_overwrites(f, error) == [f EXCEPT !.errors = <<error>>]

Pushed(f, error) == [f EXCEPT !.errors = Append(@, error)]

\* return match
Return(f, match) == [f EXCEPT !.pc = "done", !.outcome = "returned", !.result = match]

\* An exception leaves the async function: its promise rejects.
Reject(f) == [f EXCEPT !.pc = "done", !.outcome = "rejected", !.result = Null]

\* Mutant: the if (!attempted) block is missing.
Finish_withoutConfigurationError(f) ==
  [f EXCEPT !.pc = "done", !.outcome = "returned", !.result = Failure(f.errors)]

\* if (!attempted) ... return { success: false, errors }
Finish(f) ==
  LET errors == IF f.attempted THEN f.errors ELSE Append(f.errors, NotConfiguredError(f))
  IN  [f EXCEPT !.pc = "done", !.outcome = "returned", !.errors = errors,
                !.result = Failure(errors)]

\* if (bibPath) { attempted = true; await fileExists(bibPath) ...
EnterBib(f) ==
  IF Configured(f.bibPath) THEN [f EXCEPT !.pc = "bibAccess", !.attempted = TRUE]
  ELSE Finish(f)

\* if (jsonPath) { attempted = true; await fileExists(jsonPath) ...
EnterJson(f) ==
  IF Configured(f.jsonPath) THEN [f EXCEPT !.pc = "jsonAccess", !.attempted = TRUE]
  ELSE EnterBib(f)

\* Mutant: CACHE.json.set runs in the catch block too.
readJsonCache_cachesFailure(content) ==
  IF Readable(content) /\ JsonParses(content)
  THEN [parsed |-> content.value, cached |-> TRUE]
  ELSE [parsed |-> Null, cached |-> TRUE]

\* The try block of readJsonCache on what readFile gave: the value returned
\* and whether CACHE.json.set ran.
readJsonCache(content) ==
  IF Readable(content) /\ JsonParses(content)
  THEN [parsed |-> content.value, cached |-> TRUE]
  ELSE [parsed |-> Null, cached |-> FALSE]

\* The try block of readBibCache on what readFile gave.
readBibCache(content) ==
  IF Readable(content)
  THEN [parsed |-> parseBibContent(content.text), cached |-> TRUE]
  ELSE [parsed |-> NullEntries, cached |-> FALSE]

\* The match lookupInJson / lookupCitationInJson returns for parsed.
JsonMatch(f, parsed) ==
  IF f.kind = "path" THEN lookupInJson(f.query, f.jsonPath, parsed)
  ELSE lookupCitationInJson(f.trimmedKey, f.jsonPath, parsed)

BibMatch(f, entries) ==
  IF f.kind = "path" THEN lookupInBib(f.query, f.bibPath, entries)
  ELSE lookupCitationInBib(f.trimmedKey, f.bibPath, entries)

\* if (jsonMatch) return jsonMatch; errors.push(...); then the BibTeX block.
\* Mutant: a JSON match does not end the lookup while a BibTeX export is
\* configured.
AfterJsonLookup_fallsThrough(f, parsed) ==
  LET settled(g, jsonMatch) ==
        IF jsonMatch # Null /\ ~Configured(g.bibPath) THEN Return(g, jsonMatch)
        ELSE EnterBib(Pushed(g, NoMatchError(g, "JSON", g.jsonPath)))
  IN  settled([f EXCEPT !.used.json = parsed], JsonMatch(f, parsed))

AfterJsonLookup(f, parsed) ==
  LET settled(g, jsonMatch) ==
        IF jsonMatch # Null THEN Return(g, jsonMatch)
        ELSE EnterBib(Pushed(g, NoMatchError(g, "JSON", g.jsonPath)))
  IN  settled([f EXCEPT !.used.json = parsed], JsonMatch(f, parsed))

\* if (bibMatch) return bibMatch; errors.push(...)
AfterBibLookup(f, entries) ==
  LET settled(g, bibMatch) ==
        IF bibMatch # Null THEN Return(g, bibMatch)
        ELSE Finish(Pushed(g, NoMatchError(g, "BibTeX", g.bibPath)))
  IN  settled([f EXCEPT !.used.bib = entries], BibMatch(f, entries))

\* The probe CACHE.json.has / CACHE.bib.has, as io records it.
Probed(f, path, hit, stale) ==
  [f EXCEPT !.io = Append(@, [op |-> "cache", path |-> path, ok |-> hit, stale |-> stale])]

\* generatePathVariants, the first statement of lookupInJson and lookupInBib,
\* throws.
VariantsThrow(f) == f.kind = "path" /\ generatePathVariants(f.query) = VariantsThrew

ResolvedFrame(kind, query, trimmedKey, options) ==
  [IdleFrame EXCEPT
     !.kind = kind, !.query = query, !.trimmedKey = trimmedKey,
     !.jsonPath = Coalesce(Coalesce(options.jsonPath, env.BIBLIOGRAPHY_JSON), NullPath),
     !.bibPath = Coalesce(Coalesce(options.bibPath, env.BIBLIOGRAPHY_BIB), NullPath)]

(***************************************************************************)
(* Actions                                                                 *)
(***************************************************************************)
\* lookupBibliographyMetadataByPath(finderPath, options), up to its first await.
LookupByPath(p, finderPath, options) ==
  /\ lk[p].pc \in {"idle", "done"}
  /\ lk' = [lk EXCEPT ![p] = EnterJson(ResolvedFrame("path", finderPath, <<>>, options))]
  /\ UNCHANGED <<fs, env, CACHE>>

\* Mutant: the key is tested for emptiness before it is trimmed.
LookupByCitationKey_untrimmedTest(p, citationKey, options) ==
  /\ lk[p].pc \in {"idle", "done"}
  /\ lk' = [lk EXCEPT ![p] =
              IF citationKey = <<>>
              THEN Return(ResolvedFrame("citationKey", citationKey, <<>>, options),
                          Failure(<<EmptyKeyError>>))
              ELSE EnterJson(ResolvedFrame("citationKey", citationKey, trim(citationKey),
                                           options))]
  /\ UNCHANGED <<fs, env, CACHE>>

\* lookupBibliographyMetadataByCitationKey(citationKey, options), up to its
\* first await.  A call rejected for its key returns before the code
\* resolves jsonPath and bibPath; the frame still records what they resolve
\* to, so that the sources configured for the call can be told from it.
LookupByCitationKey(p, citationKey, options) ==
  /\ lk[p].pc \in {"idle", "done"}
  /\ lk' = [lk EXCEPT ![p] =
              IF trim(citationKey) = <<>>
              THEN Return(ResolvedFrame("citationKey", citationKey, <<>>, options),
                          Failure(<<EmptyKeyError>>))
              ELSE EnterJson(ResolvedFrame("citationKey", citationKey, trim(citationKey),
                                           options))]
  /\ UNCHANGED <<fs, env, CACHE>>

\* Mutant: CACHE.json is consulted before fileExists(jsonPath) is.
JsonAccess_cacheFirst(p) ==
  LET f == lk[p]
      seen == Logged(f, "access", f.jsonPath, Exists(fs[f.jsonPath]))
      hit == CacheHas(CACHE.json, f.jsonPath)
      probed == Probed(seen, f.jsonPath, hit,
                       hit /\ readJsonCache(fs[f.jsonPath]).parsed # CACHE.json[f.jsonPath])
  IN  /\ f.pc = "jsonAccess"
      /\ lk' = [lk EXCEPT ![p] =
                  IF VariantsThrow(f) /\ Exists(fs[f.jsonPath]) THEN Reject(seen)
                  ELSE IF hit /\ ~VariantsThrow(f) THEN AfterJsonLookup(probed, CACHE.json[f.jsonPath])
                  ELSE IF ~Exists(fs[f.jsonPath])
                    THEN EnterBib(Pushed(seen, NotFoundError("JSON", f.jsonPath)))
                  ELSE [probed EXCEPT !.pc = "jsonRead"]]
      /\ UNCHANGED <<fs, env, CACHE>>

\* fileExists(jsonPath) settles; on true the lookup runs up to the readFile
\* of readJsonCache, or past it when the path is cached.
JsonAccess(p) ==
  LET f == lk[p]
      seen == Logged(f, "access", f.jsonPath, Exists(fs[f.jsonPath]))
      hit == CacheHas(CACHE.json, f.jsonPath)
      probed == Probed(seen, f.jsonPath, hit,
                       hit /\ readJsonCache(fs[f.jsonPath]).parsed # CACHE.json[f.jsonPath])
  IN  /\ f.pc = "jsonAccess"
      /\ lk' = [lk EXCEPT ![p] =
                  IF ~Exists(fs[f.jsonPath])
                    THEN EnterBib(Pushed(seen, NotFoundError("JSON", f.jsonPath)))
                  ELSE IF VariantsThrow(f) THEN Reject(seen)
                  ELSE IF hit THEN AfterJsonLookup(probed, CACHE.json[f.jsonPath])
                  ELSE [probed EXCEPT !.pc = "jsonRead"]]
      /\ UNCHANGED <<fs, env, CACHE>>

\* fs.readFile(jsonPath) settles with what the path holds now.
JsonReadFile(p) ==
  LET f == lk[p]
  IN  /\ f.pc = "jsonRead"
      /\ lk' = [lk EXCEPT ![p] =
                  [Logged(f, "readFile", f.jsonPath, Readable(fs[f.jsonPath]))
                     EXCEPT !.pc = "jsonParse", !.buf = fs[f.jsonPath]]]
      /\ UNCHANGED <<fs, env, CACHE>>

\* Mutant: CACHE.json.set stores what readFile gave, not what JSON.parse
\* returned.
JsonParsed_cachesRaw(p) ==
  LET f == lk[p]
      read == readJsonCache(f.buf)
  IN  /\ f.pc = "jsonParse"
      /\ CACHE' = IF read.cached
                  THEN [CACHE EXCEPT !.json = MapSet(@, f.jsonPath, f.buf)]
                  ELSE CACHE
      /\ lk' = [lk EXCEPT ![p] = AfterJsonLookup([f EXCEPT !.buf = Absent], read.parsed)]
      /\ UNCHANGED <<fs, env>>

\* readJsonCache resumes: JSON.parse, CACHE.json.set, then the rest of the
\* JSON block.
JsonParsed(p) ==
  LET f == lk[p]
      read == readJsonCache(f.buf)
  IN  /\ f.pc = "jsonParse"
      /\ CACHE' = IF read.cached
                  THEN [CACHE EXCEPT !.json = MapSet(@, f.jsonPath, read.parsed)]
                  ELSE CACHE
      /\ lk' = [lk EXCEPT ![p] = AfterJsonLookup([f EXCEPT !.buf = Absent], read.parsed)]
      /\ UNCHANGED <<fs, env>>

BibAccess(p) ==
  LET f == lk[p]
      seen == Logged(f, "access", f.bibPath, Exists(fs[f.bibPath]))
      hit == CacheHas(CACHE.bib, f.bibPath)
      probed == Probed(seen, f.bibPath, hit,
                       hit /\ readBibCache(fs[f.bibPath]).parsed # CACHE.bib[f.bibPath])
  IN  /\ f.pc = "bibAccess"
      /\ lk' = [lk EXCEPT ![p] =
                  IF ~Exists(fs[f.bibPath])
                    THEN Finish(Pushed(seen, NotFoundError("BibTeX", f.bibPath)))
                  ELSE IF VariantsThrow(f) THEN Reject(seen)
                  ELSE IF hit THEN AfterBibLookup(probed, CACHE.bib[f.bibPath])
                  ELSE [probed EXCEPT !.pc = "bibRead"]]
      /\ UNCHANGED <<fs, env, CACHE>>

BibReadFile(p) ==
  LET f == lk[p]
  IN  /\ f.pc = "bibRead"
      /\ lk' = [lk EXCEPT ![p] =
                  [Logged(f, "readFile", f.bibPath, Readable(fs[f.bibPath]))
                     EXCEPT !.pc = "bibParse", !.buf = fs[f.bibPath]]]
      /\ UNCHANGED <<fs, env, CACHE>>

BibParsed(p) ==
  LET f == lk[p]
      read == readBibCache(f.buf)
  IN  /\ f.pc = "bibParse"
      /\ CACHE' = IF read.cached
                  THEN [CACHE EXCEPT !.bib = MapSet(@, f.bibPath, read.parsed)]
                  ELSE CACHE
      /\ lk' = [lk EXCEPT ![p] = AfterBibLookup([f EXCEPT !.buf = Absent], read.parsed)]
      /\ UNCHANGED <<fs, env>>

\* Mutant: only CACHE.json.clear() runs.
clearBibliographyMetadataCache_jsonOnly == [json |-> EmptyMap, bib |-> CACHE.bib]

\* CACHE.json.clear(); CACHE.bib.clear()
clearBibliographyMetadataCache == [json |-> EmptyMap, bib |-> EmptyMap]

ClearCache ==
  /\ CACHE' = clearBibliographyMetadataCache
  /\ UNCHANGED <<fs, env, lk>>

\* The reference manager, or anyone else, rewrites or removes an export.
WriteFile(file, content) ==
  /\ fs[file] # content
  /\ fs' = [fs EXCEPT ![file] = content]
  /\ UNCHANGED <<env, CACHE, lk>>

DeleteFile(file) ==
  /\ Exists(fs[file])
  /\ fs' = [fs EXCEPT ![file] = Absent]
  /\ UNCHANGED <<env, CACHE, lk>>

Init ==
  /\ fs = [f \in Files |-> Absent]
  /\ env \in EnvChoices
  /\ CACHE = [json |-> EmptyMap, bib |-> EmptyMap]
  /\ lk = [p \in Procs |-> IdleFrame]

Step(p) ==
  \/ JsonAccess(p)
  \/ JsonReadFile(p)
  \/ JsonParsed(p)
  \/ BibAccess(p)
  \/ BibReadFile(p)
  \/ BibParsed(p)

Next ==
  \/ \E p \in DOMAIN lk, i \in 1..Len(FinderPaths),
        oj \in PathChoices(JsonFile), ob \in PathChoices(BibFile) :
       LookupByPath(p, FinderPaths[i], Options(oj, ob))
  \/ \E p \in DOMAIN lk, i \in 1..Len(CitationKeys),
        oj \in PathChoices(JsonFile), ob \in PathChoices(BibFile) :
       LookupByCitationKey(p, CitationKeys[i], Options(oj, ob))
  \/ \E p \in DOMAIN lk : Step(p)
  \/ ClearCache
  \/ \E file \in Files :
       \E i \in 1..Len(ContentsOf(file)) : WriteFile(file, ContentsOf(file)[i])
  \/ \E file \in Files : DeleteFile(file)

Spec == Init /\ [][Next]_vars

(***************************************************************************)
(* Lookups against exports that stay as they are (SpecQuery): the queries  *)
(* are the forms of the stored paths and keys, and a caller may look up    *)
(* an attachment path of the result it holds.                              *)
(***************************************************************************)
LeePdf == Lit(<<"/", "h", "/", "l", "e", "e", ".", "p", "d", "f">>)

\* [{"id": "Lee2020", "file": "~/lee.pdf"}]
JsonLee ==
  JArray(<<JObject(<<Member(Lit(<<"i", "d">>), JString(Lit(<<"L", "e", "e", "2", "0", "2", "0">>))),
                     Member(Lit(<<"f", "i", "l", "e">>), JString(Lit(<<"~", "/", "l", "e", "e", ".", "p", "d", "f">>)))>>)>>)

\* [{"title": "Deep", "path": SmithPdf}]
JsonUntitled ==
  JArray(<<JObject(<<Member(Lit(<<"t", "i", "t", "l", "e">>), JString(Lit(<<"D", "e", "e", "p">>))),
                     Member(Lit(<<"p", "a", "t", "h">>), JString(SmithPdf))>>)>>)

Export(json, bib) == [file \in Files |-> IF file = JsonFile THEN json ELSE bib]

Exports ==
  <<Export(JsonText(JsonSmith), BibText(BibSmith)),
    Export(JsonText(JsonGarcia), BibText(BibGarcia)),
    Export(JsonText(JsonLee), Absent),
    Export(JsonText(JsonUntitled), BibText(BibSmith)),
    Export(Absent, BibText(BibGarcia))>>

\* The absolute paths an export's entries store, and the citation keys of
\* its entries, as written in the sample.
PathsStoredIn(content) ==
  IF content = JsonText(JsonSmith) \/ content = BibText(BibSmith)
       \/ content = JsonText(JsonUntitled) THEN <<SmithPdf>>
  ELSE IF content = JsonText(JsonGarcia) \/ content = BibText(BibGarcia) THEN <<GarciaPdf>>
  ELSE <<>>

KeysStoredIn(content) ==
  IF content = JsonText(JsonSmith) \/ content = BibText(BibSmith) THEN <<SmithKey>>
  ELSE IF content = JsonText(JsonGarcia) THEN <<GarciaKey>>
  ELSE IF content = BibText(BibGarcia) THEN <<Lit(<<"G", "a", "r", "c", "i", "a", "2", "0", "2", "1">>)>>
  ELSE IF content = JsonText(JsonLee) THEN <<Lit(<<"L", "e", "e", "2", "0", "2", "0">>)>>
  ELSE <<>>

\* The four forms of a stored path P a caller may ask with: P, P with its
\* spaces percent-encoded, the file URL of P, P with backslashes.
QueryForms(P) ==
  <<P,
    replaceAllChar(P, Ch(" "), Lit(<<"%", "2", "0">>)),
    pathToFileURL(P),
    replaceAllChar(P, Slash, <<Backslash>>)>>

QueryPaths == QueryForms(SmithPdf) \o QueryForms(GarciaPdf)

QueryKeys ==
  <<Lit(<<" ", "S", "m", "i", "t", "h", "2", "0", "2", "4", "D", "e", "e", "p">>), <<160>> \o Lit(<<"S", "M", "I", "T", "H", "2", "0", "2", "4", "D", "E", "E", "P">>) \o <<9>>, Lit(<<"G", "A", "R", "C", "I", "A", "2", "0", "2", "1", " ">>),
    Lit(<<"g", "a", "r", "c", "i", "a", "2", "0", "2", "1">>), Lit(<<"l", "e", "e", "2", "0", "2", "0">>), Lit(<<" ">>)>>

QueryOptions ==
  <<Options(JsonFile, BibFile), Options(JsonFile, UndefinedPath),
    Options(UndefinedPath, BibFile)>>

\* The caller passes an attachment path of the result it holds to
\* lookupBibliographyMetadataByPath, with the export paths of the lookup
\* that gave the result; origin records the source of that result.
LookupAttachment(p, i) ==
  LET f == lk[p]
      paths == f.result.descriptor.attachmentPaths
  IN  /\ f.pc = "done" /\ f.outcome = "returned" /\ f.result.success
      /\ i \in 1..Len(paths)
      /\ lk' = [lk EXCEPT ![p] =
                  EnterJson([IdleFrame EXCEPT
                               !.kind = "path", !.query = paths[i],
                               !.jsonPath = f.jsonPath, !.bibPath = f.bibPath,
                               !.origin = f.result.source])]
      /\ UNCHANGED <<fs, env, CACHE>>

MaxAttachments == 2

InitQuery ==
  /\ \E i \in 1..Len(Exports) : fs = Exports[i]
  /\ env = [BIBLIOGRAPHY_JSON |-> UndefinedPath, BIBLIOGRAPHY_BIB |-> UndefinedPath]
  /\ CACHE = [json |-> EmptyMap, bib |-> EmptyMap]
  /\ lk = [p \in Procs |-> IdleFrame]

NextQuery ==
  \/ \E p \in DOMAIN lk, i \in 1..Len(QueryPaths), o \in 1..Len(QueryOptions) :
       LookupByPath(p, QueryPaths[i], QueryOptions[o])
  \/ \E p \in DOMAIN lk, i \in 1..Len(QueryKeys), o \in 1..Len(QueryOptions) :
       LookupByCitationKey(p, QueryKeys[i], QueryOptions[o])
  \/ \E p \in DOMAIN lk, i \in 1..MaxAttachments : LookupAttachment(p, i)
  \/ \E p \in DOMAIN lk : Step(p)

SpecQuery == InitQuery /\ [][NextQuery]_vars

(***************************************************************************)
(* Citation-key lookups against exports whose entries carry several        *)
(* identifiers (SpecKeys), besides the exports and queries of SpecQuery.   *)
(***************************************************************************)
DoeAlias == Lit(<<"d", "o", "e", "-", "2", "0">>)

\* [{"citationKey": "Doe2020", "id": "doe-20", "title": "A"}]
JsonAliased ==
  JArray(<<JObject(<<Member(Lit(<<"c", "i", "t", "a", "t", "i", "o", "n", "K", "e", "y">>), JString(Lit(<<"D", "o", "e", "2", "0", "2", "0">>))),
                     Member(Lit(<<"i", "d">>), JString(DoeAlias)),
                     Member(Lit(<<"t", "i", "t", "l", "e">>), JString(Lit(<<"A">>)))>>)>>)

\* @book{lee2019, id = {doe-20}, title = {B}}
BibAliased == Lit(<<"@", "b", "o", "o", "k", "{", "l", "e", "e", "2", "0", "1", "9", ",", " ", "i", "d", " ", "=", " ", "{", "d", "o", "e", "-", "2", "0", "}", ",", " ", "t", "i", "t", "l", "e", " ", "=", " ", "{", "B", "}", "}">>)

AliasedExports ==
  <<Export(JsonText(JsonAliased), BibText(BibAliased)),
    Export(JsonText(JsonSmith), BibText(BibAliased))>>

AliasedKeys ==
  <<Lit(<<"D", "O", "E", "-", "2", "0", " ">>), Lit(<<" ", "d", "o", "e", "2", "0", "2", "0">>), Lit(<<"L", "e", "e", "2", "0", "1", "9">>)>>

InitKeys ==
  /\ \/ \E i \in 1..Len(Exports) : fs = Exports[i]
     \/ \E i \in 1..Len(AliasedExports) : fs = AliasedExports[i]
  /\ env = [BIBLIOGRAPHY_JSON |-> UndefinedPath, BIBLIOGRAPHY_BIB |-> UndefinedPath]
  /\ CACHE = [json |-> EmptyMap, bib |-> EmptyMap]
  /\ lk = [p \in Procs |-> IdleFrame]

NextKeys ==
  \/ \E p \in DOMAIN lk, i \in 1..Len(QueryKeys), o \in 1..Len(QueryOptions) :
       LookupByCitationKey(p, QueryKeys[i], QueryOptions[o])
  \/ \E p \in DOMAIN lk, i \in 1..Len(AliasedKeys), o \in 1..Len(QueryOptions) :
       LookupByCitationKey(p, AliasedKeys[i], QueryOptions[o])
  \/ \E p \in DOMAIN lk : Step(p)

SpecKeys == InitKeys /\ [][NextKeys]_vars

(***************************************************************************)
(* Path lookups against JSON exports whose entries hold the path in more   *)
(* than one place (SpecOrder).                                             *)
(***************************************************************************)
\* [{"id": "a1", "file": SmithPdf, "7": ":" + SmithPdf}]
JsonNumbered ==
  JArray(<<JObject(<<Member(Lit(<<"i", "d">>), JString(Lit(<<"a", "1">>))),
                     Member(Lit(<<"f", "i", "l", "e">>), JString(SmithPdf)),
                     Member(Lit(<<"7">>), JString(Lit(<<":">>) \o SmithPdf))>>)>>)

\* [{"id": "b1", "attachments": [{"title": "x"}, {"path": GarciaPdf}], "file": ":" + GarciaPdf},
\*  {"id": "b2", "file": GarciaPdf}]
JsonNested ==
  JArray(<<JObject(<<Member(Lit(<<"i", "d">>), JString(Lit(<<"b", "1">>))),
                     Member(Lit(<<"a", "t", "t", "a", "c", "h", "m", "e", "n", "t", "s">>),
                            JArray(<<JObject(<<Member(Lit(<<"t", "i", "t", "l", "e">>), JString(Lit(<<"x">>)))>>),
                                     JObject(<<Member(Lit(<<"p", "a", "t", "h">>), JString(GarciaPdf))>>)>>)),
                     Member(Lit(<<"f", "i", "l", "e">>), JString(Lit(<<":">>) \o GarciaPdf))>>),
           JObject(<<Member(Lit(<<"i", "d">>), JString(Lit(<<"b", "2">>))),
                     Member(Lit(<<"f", "i", "l", "e">>), JString(GarciaPdf))>>)>>)

\* {"items": [{"id": "c1"}, "x", {"id": "c2", "path": SmithPdf}]}
JsonItems ==
  JObject(<<Member(Lit(<<"i", "t", "e", "m", "s">>),
                   JArray(<<JObject(<<Member(Lit(<<"i", "d">>), JString(Lit(<<"c", "1">>)))>>),
                            JString(Lit(<<"x">>)),
                            JObject(<<Member(Lit(<<"i", "d">>), JString(Lit(<<"c", "2">>))),
                                      Member(Lit(<<"p", "a", "t", "h">>), JString(SmithPdf))>>)>>))>>)

OrderExports ==
  <<Export(JsonText(JsonNumbered), Absent),
    Export(JsonText(JsonNested), Absent),
    Export(JsonText(JsonItems), BibText(BibSmith))>>

InitOrder ==
  /\ \E i \in 1..Len(OrderExports) : fs = OrderExports[i]
  /\ env = [BIBLIOGRAPHY_JSON |-> UndefinedPath, BIBLIOGRAPHY_BIB |-> UndefinedPath]
  /\ CACHE = [json |-> EmptyMap, bib |-> EmptyMap]
  /\ lk = [p \in Procs |-> IdleFrame]

NextOrder ==
  \/ \E p \in DOMAIN lk, i \in 1..Len(QueryPaths), o \in 1..Len(QueryOptions) :
       LookupByPath(p, QueryPaths[i], QueryOptions[o])
  \/ \E p \in DOMAIN lk : Step(p)

SpecOrder == InitOrder /\ [][NextOrder]_vars

(***************************************************************************)
(* Two callers whose lookups overlap (SpecOverlap).  Each lookup is        *)
(* suspended only at its awaits, fileExists and fs.readFile, so the steps  *)
(* of the two interleave at those points; the export files are as the      *)
(* environment left them and do not change meanwhile.                      *)
(***************************************************************************)
Callers == {"p1", "p2"}

InitOverlap ==
  /\ \E j \in 1..Len(JsonContents), b \in 1..Len(BibContents) :
       fs = Export(JsonContents[j], BibContents[b])
  /\ env = [BIBLIOGRAPHY_JSON |-> UndefinedPath, BIBLIOGRAPHY_BIB |-> UndefinedPath]
  /\ CACHE = [json |-> EmptyMap, bib |-> EmptyMap]
  /\ lk = [p \in Callers |-> IdleFrame]

NextOverlap ==
  \/ \E p \in DOMAIN lk, i \in 1..Len(FinderPaths) :
       /\ lk[p].pc = "idle"
       /\ LookupByPath(p, FinderPaths[i], Options(JsonFile, BibFile))
  \/ \E p \in DOMAIN lk :
       /\ lk[p].pc = "idle"
       /\ LookupByCitationKey(p, CitationKeys[1], Options(JsonFile, BibFile))
  \/ \E p \in DOMAIN lk : Step(p)

SpecOverlap == InitOverlap /\ [][NextOverlap]_vars

(***************************************************************************)
(* clearBibliographyMetadataCache called while a lookup is suspended       *)
(* (SpecClear).  The clear is ClearCache; in addition the io of a lookup   *)
(* that holds what fs.readFile gave it, and has not resumed yet, records   *)
(* that the cache was cleared meanwhile.                                   *)
(***************************************************************************)
Cleared(f) ==
  IF f.pc \in {"jsonParse", "bibParse"} /\ f.io[Len(f.io)].op # "clear"
  THEN Logged(f, "clear", IF f.pc = "jsonParse" THEN f.jsonPath ELSE f.bibPath, TRUE)
  ELSE f

ClearCacheInFlight ==
  /\ CACHE' = clearBibliographyMetadataCache
  /\ lk' = [p \in DOMAIN lk |-> Cleared(lk[p])]
  /\ UNCHANGED <<fs, env>>

InitClear ==
  /\ \E j \in 1..Len(JsonContents), b \in 1..Len(BibContents) :
       fs = Export(JsonContents[j], BibContents[b])
  /\ env = [BIBLIOGRAPHY_JSON |-> UndefinedPath, BIBLIOGRAPHY_BIB |-> UndefinedPath]
  /\ CACHE = [json |-> EmptyMap, bib |-> EmptyMap]
  /\ lk = [p \in Procs |-> IdleFrame]

NextClear ==
  \/ \E p \in DOMAIN lk, i \in 1..Len(FinderPaths) :
       LookupByPath(p, FinderPaths[i], Options(JsonFile, BibFile))
  \/ \E p \in DOMAIN lk :
       LookupByCitationKey(p, CitationKeys[1], Options(JsonFile, BibFile))
  \/ \E p \in DOMAIN lk : Step(p)
  \/ ClearCacheInFlight
  \/ \E file \in Files :
       \E i \in 1..Len(ContentsOf(file)) : WriteFile(file, ContentsOf(file)[i])

SpecClear == InitClear /\ [][NextClear]_vars

(***************************************************************************)
(* The tool get_records_by_citation_key                                    *)
(* (src/src/tools/findRecordsByCitationKey.ts) and the document store it   *)
(* queries (SpecRecords).  A record of the store is given by its id, its   *)
(* UUID and the path strings lookupRecordsWithPath finds it under.         *)
(***************************************************************************)
FinderPathRecord(id, uuid, paths) == [id |-> id, uuid |-> uuid, paths |-> paths]

\* theApp.lookupRecordsWithPath(variant), in the order of the store.
lookupRecordsWithPath(store, variant) ==
  SelectSeq(store, LAMBDA record : variant \in record.paths)

\* isValuePresent for a string or undefined (NullStr).
isValuePresent(value) == value # NullStr /\ trim(value) # <<>>

\* convertDevonthinkRecord: the properties that are present; the id is a
\* number, the path is not looked at again.
convertDevonthinkRecord(record) ==
  [id |-> record.id, uuid |-> IF isValuePresent(record.uuid) THEN record.uuid ELSE NullStr]

\* converted.uuid || ("id:" + converted.id)
recordKey(converted) ==
  IF converted.uuid # NullStr /\ converted.uuid # <<>> THEN converted.uuid
  ELSE Lit(<<"i", "d", ":">>) \o decimal(converted.id)

RECURSIVE pushUnseen(_, _, _)
\* if (uuid && !recordByUUID[uuid]) { recordByUUID[uuid] = true; records.push(converted) }
\* for each of the converted matches, from the records pushed so far.
pushUnseen(matches, seen, records) ==
  IF matches = <<>> THEN records
  ELSE IF recordKey(Head(matches)) \in seen THEN pushUnseen(Tail(matches), seen, records)
  ELSE pushUnseen(Tail(matches), seen \cup {recordKey(Head(matches))},
                  Append(records, Head(matches)))

\* matches.slice(0, maxPerPath).map(convertDevonthinkRecord) for one variant;
\* an empty variant is skipped.
variantMatches(store, variant, maxPerPath) ==
  IF variant = <<>> THEN <<>>
  ELSE mapEach(slice(lookupRecordsWithPath(store, variant), 0, maxPerPath),
               convertDevonthinkRecord)

\* The body of payload.requests.forEach in the script buildFinderLookupScript
\* builds: records and recordByUUID start empty for every request.
requestRecords(store, request, maxPerPath) ==
  [originalPath |-> request.path,
   records |-> pushUnseen(concatAll(mapEach(request.variants,
                                            LAMBDA variant :
                                              variantMatches(store, variant, maxPerPath))),
                          {}, <<>>)]

\* The request lookupRecordsForAttachments builds for one path.
attachmentRequest(pathValue) ==
  [path |-> trim(pathValue),
   variants |->
     uniqueInOrder(SelectSeq(<<trim(pathValue)>>
                               \o mapEach(generateFinderPathVariants(trim(pathValue)), trim),
                             LAMBDA variant : variant # <<>>))]

\* lookupRecordsForAttachments(paths, maxPerPath) against the store as it is
\* when the script runs: the results, or threw when generateFinderPathVariants
\* throws on one of the paths.
lookupRecordsForAttachments(paths, maxPerPath, store) ==
  IF \E i \in 1..Len(paths) : generateFinderPathVariants(trim(paths[i])) = VariantsThrew
  THEN [threw |-> TRUE, results |-> <<>>]
  ELSE [threw |-> FALSE,
        results |-> mapEach(mapEach(paths, attachmentRequest),
                            LAMBDA request : requestRecords(store, request, maxPerPath))]

RECURSIVE StringOf(_)
\* String(value) for a parsed JSON value.
StringOf(v) ==
  CASE v.t = "string" -> v.s
    [] v.t = "number" -> decimal(v.n)
    [] v.t = "boolean" -> IF v.b THEN Lit(<<"t", "r", "u", "e">>) ELSE Lit(<<"f", "a", "l", "s", "e">>)
    [] v.t = "array" ->
         joinWith(mapEach(v.a, LAMBDA e : IF e.t \in {"null", "undefined"} THEN <<>>
                                          ELSE StringOf(e)),
                  <<Ch(",")>>)
    [] v.t = "object" -> Lit(<<"[", "o", "b", "j", "e", "c", "t", " ", "O", "b", "j", "e", "c", "t", "]">>)
    [] OTHER -> <<>>

\* buildMetadataPayload(match): the title, NullStr for null.
buildMetadataPayload(match) ==
  IF match.source = "json"
  THEN LET title == getProp(match.item, Lit(<<"t", "i", "t", "l", "e">>))
       IN  IF \/ title.t \in {"undefined", "null"}
              \/ (title.t = "string" /\ trim(title.s) = <<>>)
              \/ (title.t = "array" /\ title.a = <<>>)
           THEN NullStr
           ELSE StringOf(title)
  ELSE LET title == fieldValue(match.entry.fields, Lit(<<"t", "i", "t", "l", "e">>))
       IN  IF isValuePresent(title) THEN title ELSE NullStr

\* What findRecordsByCitationKey returns once the lookup has settled with
\* lookupResult and, for a success with attachments, the script has run.
CitationLookupResponse(f, lookupResult, recordMatches) ==
  IF ~lookupResult.success
    THEN [success |-> FALSE,
          error |-> <<"No Bibliography metadata entry found for citation key '",
                      f.query, "'">>,
          citationKey |-> f.query,
          details |-> lookupResult.errors,
          pathsChecked |-> [json |-> f.jsonPath, bib |-> f.bibPath]]
  ELSE IF recordMatches.threw
    THEN [success |-> FALSE,
          error |-> <<"URI malformed">>,
          citationKey |-> f.query,
          details |-> <<<<"Attachment lookup failed for ",
                          Len(lookupResult.descriptor.attachmentPaths), " path(s)">>>>,
          pathsChecked |-> [json |-> f.jsonPath, bib |-> f.bibPath]]
  ELSE [success |-> TRUE,
        citationKey |-> f.query,
        bibliographyMetadata |-> buildMetadataPayload(lookupResult),
        devonthinkRecords |->
          concatAll(mapEach(recordMatches.results, LAMBDA match : match.records))]

\* findRecordsByCitationKey(input), up to the first await of the lookup it
\* calls with the trimmed key and the paths it resolved.
FindRecordsByCitationKey(p, citationKey, options) ==
  LookupByCitationKey(p, trim(citationKey),
                      Options(Coalesce(Coalesce(options.jsonPath, env.BIBLIOGRAPHY_JSON),
                                       UndefinedPath),
                              Coalesce(Coalesce(options.bibPath, env.BIBLIOGRAPHY_BIB),
                                       UndefinedPath)))

\* findRecordsByCitationKey resumes with the result of the lookup: for a
\* success with attachments it runs the script against the store (that await
\* touches nothing of the engine), and returns.  maxRecordsPerPath is an
\* input of the call that is read only here.
RecordsLookedUp(p, maxRecordsPerPath, store) ==
  LET f == lk[p]
  IN  /\ f.pc = "done" /\ f.kind = "citationKey" /\ f.outcome = "returned"
      /\ lk' = [lk EXCEPT ![p] =
                  [f EXCEPT !.kind = "tool",
                            !.result =
                              CitationLookupResponse(
                                f, f.result,
                                IF f.result.success
                                THEN lookupRecordsForAttachments(
                                       f.result.descriptor.attachmentPaths,
                                       maxRecordsPerPath, store)
                                ELSE [threw |-> FALSE, results |-> <<>>])]]
      /\ UNCHANGED <<fs, env, CACHE>>

PdfSpaced == Lit(<<"/", "L", "/", "a", " ", "b", ".", "p", "d", "f">>)

PdfEscaped == Lit(<<"/", "L", "/", "a", "%", "2", "0", "b", ".", "p", "d", "f">>)

DoeKey == Lit(<<"d", "o", "e", "2", "0", "2", "0">>)

\* [{"id": "doe2020", "title": "T", "path": "/L/a b.pdf", "file": "/L/a%2520b.pdf"}]:
\* two files, the second named a%20b.pdf, its path written as a URI.
JsonDoe ==
  JArray(<<JObject(<<Member(Lit(<<"i", "d">>), JString(DoeKey)),
                     Member(Lit(<<"t", "i", "t", "l", "e">>), JString(Lit(<<"T">>))),
                     Member(Lit(<<"p", "a", "t", "h">>), JString(PdfSpaced)),
                     Member(Lit(<<"f", "i", "l", "e">>),
                            JString(Lit(<<"/", "L", "/", "a", "%", "2", "5", "2", "0", "b", ".", "p", "d", "f">>)))>>)>>)

RecordExports ==
  <<Export(JsonText(JsonDoe), Absent),
    Export(JsonText(JsonSmith), BibText(BibSmith)),
    Export(Garbage, BibText(BibGarcia))>>

\* The stores: one that holds a record for each of the two files of
\* doe2020 under its path; one that finds the record of Smith 24.pdf under
\* its path and under the same path after a colon, and holds a second record
\* without a UUID for that path.
Stores ==
  <<<<FinderPathRecord(1, Lit(<<"U", "1">>), {PdfSpaced}),
      FinderPathRecord(2, Lit(<<"U", "2">>), {PdfEscaped})>>,
    <<FinderPathRecord(3, Lit(<<"U", "3">>), {SmithPdf, <<Ch(":")>> \o SmithPdf}),
      FinderPathRecord(4, <<>>, {SmithPdf}),
      FinderPathRecord(5, Lit(<<"U", "5">>), {GarciaPdf})>>>>

RecordKeys == <<DoeKey, Lit(<<" ", "S", "m", "i", "t", "h", "2", "0", "2", "4", "D", "e", "e", "p">>), GarciaKey>>

MaxRecordsPerPath == 2

InitRecords ==
  /\ \E i \in 1..Len(RecordExports) : fs = RecordExports[i]
  /\ env = [BIBLIOGRAPHY_JSON |-> JsonFile, BIBLIOGRAPHY_BIB |-> UndefinedPath]
  /\ CACHE = [json |-> EmptyMap, bib |-> EmptyMap]
  /\ lk = [p \in Procs |-> IdleFrame]

NextRecords ==
  \/ \E p \in DOMAIN lk, i \in 1..Len(RecordKeys), o \in 1..Len(QueryOptions) :
       FindRecordsByCitationKey(p, RecordKeys[i], QueryOptions[o])
  \/ \E p \in DOMAIN lk : Step(p)
  \/ \E p \in DOMAIN lk, maxRecordsPerPath \in 1..MaxRecordsPerPath, s \in 1..Len(Stores) :
       RecordsLookedUp(p, maxRecordsPerPath, Stores[s])

SpecRecords == InitRecords /\ [][NextRecords]_vars

(***************************************************************************)
(* Lookups under changing exports for any string (SpecAnyPath): a path may *)
(* hold an unpaired surrogate, which a JavaScript string can.              *)
(***************************************************************************)
\* "/L/\uD800.pdf"
LoneSurrogatePdf == Lit(<<"/", "L", "/">>) \o <<55296>> \o Lit(<<".", "p", "d", "f">>)

NextAnyPath ==
  \/ \E p \in DOMAIN lk, oj \in PathChoices(JsonFile), ob \in PathChoices(BibFile) :
       LookupByPath(p, LoneSurrogatePdf, Options(oj, ob))
  \/ Next

SpecAnyPath == Init /\ [][NextAnyPath]_vars

(***************************************************************************)
(* Properties of the lookups under changing exports (Spec)                 *)
(***************************************************************************)
\* C1: source precedence.  A lookup that matched its query against JSON
\* content holding a matching entry returns a result of source "json",
\* whatever the BibTeX export holds; and a result of source "bib" is returned
\* only when the JSON source gave no match: it is not configured, its file
\* was not found, or the content matched against has no matching entry.
C1_JsonPrecedence ==
  \A p \in DOMAIN lk :
    LET f == lk[p]
    IN  (f.pc = "done" /\ f.outcome = "returned" /\ f.result.success) =>
          /\ (f.used.json # Unused /\ JsonMatch(f, f.used.json) # Null)
                => f.result.source = "json"
          /\ f.result.source = "bib" =>
                \/ ~Configured(f.jsonPath)
                \/ f.errors = <<NotFoundError("JSON", f.jsonPath)>>
                \/ /\ f.errors = <<NoMatchError(f, "JSON", f.jsonPath)>>
                   /\ JsonMatch(f, f.used.json) = Null

\* Both exports are configured and present, the BibTeX export on disk holds
\* a matching entry, and the lookup returned the JSON match.
C1_Witness ==
  \E p \in DOMAIN lk :
    LET f == lk[p]
    IN  /\ f.pc = "done" /\ f.outcome = "returned" /\ f.result.success
        /\ f.result.source = "json"
        /\ Configured(f.bibPath) /\ Readable(fs[f.bibPath])
        /\ BibMatch(f, readBibCache(fs[f.bibPath]).parsed) # Null

\* C2 as stated: every failure result of a lookup with at least one source
\* configured lists exactly one error per configured source, JSON first:
\* "metadata file not found" when the existence check of that source failed,
\* otherwise the no-match error naming the file.
C2_ErrorsPerSource ==
  \A p \in DOMAIN lk :
    LET f == lk[p]
        absent(path) == \E i \in 1..Len(f.io) :
                          f.io[i].op = "access" /\ f.io[i].path = path /\ ~f.io[i].ok
        errorOf(label, path) ==
          IF ~Configured(path) THEN <<>>
          ELSE IF absent(path) THEN <<NotFoundError(label, path)>>
          ELSE <<NoMatchError(f, label, path)>>
    IN  (/\ f.pc = "done" /\ f.outcome = "returned" /\ ~f.result.success
         /\ (Configured(f.jsonPath) \/ Configured(f.bibPath)))
          => /\ f.errors = errorOf("JSON", f.jsonPath) \o errorOf("BibTeX", f.bibPath)
             /\ f.result = Failure(f.errors)

\* C2, amended: the same, for path lookups and for citation-key lookups
\* whose key is not empty after trimming.
C2_ErrorsPerAttemptedSource ==
  \A p \in DOMAIN lk :
    LET f == lk[p]
        absent(path) == \E i \in 1..Len(f.io) :
                          f.io[i].op = "access" /\ f.io[i].path = path /\ ~f.io[i].ok
        errorOf(label, path) ==
          IF ~Configured(path) THEN <<>>
          ELSE IF absent(path) THEN <<NotFoundError(label, path)>>
          ELSE <<NoMatchError(f, label, path)>>
    IN  (/\ f.pc = "done" /\ f.outcome = "returned" /\ ~f.result.success
         /\ (Configured(f.jsonPath) \/ Configured(f.bibPath))
         /\ (f.kind = "path" \/ trim(f.query) # <<>>))
          => /\ f.errors = errorOf("JSON", f.jsonPath) \o errorOf("BibTeX", f.bibPath)
             /\ f.result = Failure(f.errors)

\* Both sources configured and both failing, one for a missing file and one
\* for want of a matching entry: two errors, JSON first.
C2_Witness ==
  \E p \in DOMAIN lk :
    LET f == lk[p]
    IN  /\ f.pc = "done" /\ f.outcome = "returned" /\ ~f.result.success
        /\ f.kind = "citationKey"
        /\ f.result.errors = <<NotFoundError("JSON", f.jsonPath),
                               NoMatchError(f, "BibTeX", f.bibPath)>>

\* C3 as stated: with neither source configured a lookup returns a failure
\* whose only error is the configuration message, having made no file
\* system call and no cache probe; the step that starts such a lookup ends it
\* and leaves the cache and the files as they were.
C3_NotConfigured ==
  /\ [](\A p \in DOMAIN lk :
          LET f == lk[p]
          IN  (f.kind # "none" /\ ~Configured(f.jsonPath) /\ ~Configured(f.bibPath))
                => /\ f.pc = "done" /\ f.outcome = "returned"
                   /\ f.result = Failure(<<NotConfiguredError(f)>>)
                   /\ f.io = <<>>)
  /\ [][\A p \in DOMAIN lk :
          (/\ lk[p].pc \in {"idle", "done"} /\ lk'[p] # lk[p]
           /\ ~Configured(lk'[p].jsonPath) /\ ~Configured(lk'[p].bibPath))
            => CACHE' = CACHE /\ fs' = fs]_vars

\* C3, amended: the same, for path lookups and for citation-key lookups
\* whose key is not empty after trimming.
C3_NotConfiguredNonEmptyKey ==
  /\ [](\A p \in DOMAIN lk :
          LET f == lk[p]
          IN  (/\ f.kind # "none" /\ ~Configured(f.jsonPath) /\ ~Configured(f.bibPath)
               /\ (f.kind = "path" \/ trim(f.query) # <<>>))
                => /\ f.pc = "done" /\ f.outcome = "returned"
                   /\ f.result = Failure(<<NotConfiguredError(f)>>)
                   /\ f.io = <<>>)
  /\ [][\A p \in DOMAIN lk :
          (/\ lk[p].pc \in {"idle", "done"} /\ lk'[p] # lk[p]
           /\ ~Configured(lk'[p].jsonPath) /\ ~Configured(lk'[p].bibPath))
            => CACHE' = CACHE /\ fs' = fs]_vars

\* A citation-key lookup with a proper key and an empty-string jsonPath
\* option, no environment value and no bibPath, has returned the
\* configuration error while both exports exist and content is cached.
C3_Witness ==
  \E p \in DOMAIN lk :
    LET f == lk[p]
    IN  /\ f.pc = "done" /\ f.kind = "citationKey" /\ f.trimmedKey # <<>>
        /\ f.jsonPath = "" /\ ~Configured(f.bibPath)
        /\ f.result = Failure(<<NotConfiguredError(f)>>)
        /\ \A file \in Files : Exists(fs[file])
        /\ DOMAIN CACHE.bib # {}

\* C4: a citation-key lookup whose key is empty after trimming returns the
\* failure with the single error "Citation key must not be empty" in the
\* step that starts it, whatever sources are configured: it makes no
\* existence check, no cache probe and no read, and the step leaves both
\* cache maps and the files as they were.
C4_EmptyKeyRejected ==
  /\ [](\A p \in DOMAIN lk :
          LET f == lk[p]
          IN  (f.kind = "citationKey" /\ trim(f.query) = <<>>)
                => /\ f.pc = "done" /\ f.outcome = "returned"
                   /\ f.result = Failure(<<EmptyKeyError>>)
                   /\ f.io = <<>>)
  /\ [][\A p \in DOMAIN lk :
          (/\ lk[p].pc \in {"idle", "done"} /\ lk'[p] # lk[p]
           /\ lk'[p].kind = "citationKey" /\ trim(lk'[p].query) = <<>>)
            => CACHE' = CACHE /\ fs' = fs]_vars

\* A whitespace-only key has been rejected with both sources configured,
\* both files present and both cache maps populated.
C4_Witness ==
  \E p \in DOMAIN lk :
    LET f == lk[p]
    IN  /\ f.pc = "done" /\ f.kind = "citationKey"
        /\ f.query # <<>> /\ trim(f.query) = <<>>
        /\ Configured(f.jsonPath) /\ Configured(f.bibPath)
        /\ f.result = Failure(<<EmptyKeyError>>)
        /\ \A file \in Files : Exists(fs[file])
        /\ DOMAIN CACHE.json # {} /\ DOMAIN CACHE.bib # {}

\* C5: a failed read or parse is never cached.  No cache entry holds the
\* value a failed read returns; the step in which a read or parse fails
\* leaves the cache as it was; and a lookup that finds its file present and
\* its path not cached reads the file again (unless generatePathVariants
\* throws on its query first).
C5_FailedReadNotCached ==
  /\ [](/\ \A path \in DOMAIN CACHE.json : CACHE.json[path] # Null
        /\ \A path \in DOMAIN CACHE.bib : CACHE.bib[path] # NullEntries)
  /\ [][\A p \in DOMAIN lk :
          /\ (lk[p].pc = "jsonParse" /\ lk'[p] # lk[p]
               /\ ~(Readable(lk[p].buf) /\ JsonParses(lk[p].buf)))
                => CACHE' = CACHE /\ lk'[p].used.json = Null
          /\ (lk[p].pc = "bibParse" /\ lk'[p] # lk[p] /\ ~Readable(lk[p].buf))
                => CACHE' = CACHE /\ lk'[p].used.bib = NullEntries
          /\ (lk[p].pc = "jsonAccess" /\ lk'[p] # lk[p] /\ Exists(fs[lk[p].jsonPath])
               /\ lk[p].jsonPath \notin DOMAIN CACHE.json /\ ~VariantsThrow(lk[p]))
                => lk'[p].pc = "jsonRead"
          /\ (lk[p].pc = "bibAccess" /\ lk'[p] # lk[p] /\ Exists(fs[lk[p].bibPath])
               /\ lk[p].bibPath \notin DOMAIN CACHE.bib /\ ~VariantsThrow(lk[p]))
                => lk'[p].pc = "bibRead"]_vars

\* A lookup has read the JSON export and failed to parse it; the path is not
\* cached, and the file has since become well-formed.
C5_Witness ==
  \E p \in DOMAIN lk :
    LET f == lk[p]
    IN  /\ f.pc = "done" /\ f.used.json = Null
        /\ \E i \in 1..Len(f.io) :
              f.io[i].op = "readFile" /\ f.io[i].path = f.jsonPath /\ f.io[i].ok
        /\ f.jsonPath \notin DOMAIN CACHE.json
        /\ Readable(fs[f.jsonPath]) /\ JsonParses(fs[f.jsonPath])

C7_StaleServed ==
  [][/\ \A p \in DOMAIN lk :
          /\ (lk[p].pc = "jsonAccess" /\ lk'[p] # lk[p]
               /\ lk[p].jsonPath \in DOMAIN CACHE.json)
                => /\ lk'[p].used.json = CACHE.json[lk[p].jsonPath]
                   /\ lk'[p].pc # "jsonRead"
          /\ (lk[p].pc = "bibAccess" /\ lk'[p] # lk[p]
               /\ lk[p].bibPath \in DOMAIN CACHE.bib)
                => /\ lk'[p].used.bib = CACHE.bib[lk[p].bibPath]
                   /\ lk'[p].pc # "bibRead"
     /\ ~ClearCache =>
          /\ \A path \in DOMAIN CACHE.json :
                path \in DOMAIN CACHE'.json /\ CACHE'.json[path] = CACHE.json[path]
          /\ \A path \in DOMAIN CACHE.bib :
                path \in DOMAIN CACHE'.bib /\ CACHE'.bib[path] = CACHE.bib[path]]_vars

\* C7, amended: the same, for every later lookup that finds the file present
\* at its existence check and on whose query generatePathVariants does not
\* throw.
C7_StaleServedWhilePresent ==
  [][/\ \A p \in DOMAIN lk :
          /\ (lk[p].pc = "jsonAccess" /\ lk'[p] # lk[p]
               /\ lk[p].jsonPath \in DOMAIN CACHE.json /\ Exists(fs[lk[p].jsonPath])
               /\ ~VariantsThrow(lk[p]))
                => /\ lk'[p].used.json = CACHE.json[lk[p].jsonPath]
                   /\ lk'[p].pc # "jsonRead"
          /\ (lk[p].pc = "bibAccess" /\ lk'[p] # lk[p]
               /\ lk[p].bibPath \in DOMAIN CACHE.bib /\ Exists(fs[lk[p].bibPath])
               /\ ~VariantsThrow(lk[p]))
                => /\ lk'[p].used.bib = CACHE.bib[lk[p].bibPath]
                   /\ lk'[p].pc # "bibRead"
     /\ ~ClearCache =>
          /\ \A path \in DOMAIN CACHE.json :
                path \in DOMAIN CACHE'.json /\ CACHE'.json[path] = CACHE.json[path]
          /\ \A path \in DOMAIN CACHE.bib :
                path \in DOMAIN CACHE'.bib /\ CACHE'.bib[path] = CACHE.bib[path]]_vars

\* A lookup found the JSON path cached while the file held other content,
\* read nothing, and returned a match from the cached content.
C7_Witness ==
  \E p \in DOMAIN lk :
    LET f == lk[p]
    IN  /\ f.pc = "done" /\ f.outcome = "returned" /\ f.result.success
        /\ f.result.source = "json"
        /\ \E i \in 1..Len(f.io) :
              f.io[i].op = "cache" /\ f.io[i].path = f.jsonPath /\ f.io[i].ok
                /\ f.io[i].stale
        /\ \A i \in 1..Len(f.io) : f.io[i].op # "readFile"

\* C18: a lookup checks that the file exists before it consults the cache:
\* every cache probe in io follows a successful existence check of the same
\* path; the step of a lookup that finds its file missing while the path is
\* cached records "metadata file not found" for that source, probes and uses
\* nothing of the cache, and leaves the cache as it is; and a lookup that
\* found a file missing ends without a match from that source.
C18_ExistenceBeforeCache ==
  /\ [](\A p \in DOMAIN lk :
          LET f == lk[p]
              missing(path) == \E i \in 1..Len(f.io) :
                                 f.io[i].op = "access" /\ f.io[i].path = path /\ ~f.io[i].ok
          IN  /\ \A i \in 1..Len(f.io) :
                   f.io[i].op = "cache" =>
                     /\ i > 1
                     /\ f.io[i - 1].op = "access" /\ f.io[i - 1].path = f.io[i].path
                     /\ f.io[i - 1].ok
              /\ (f.pc = "done" /\ missing(f.jsonPath)) =>
                   /\ f.used.json = Unused
                   /\ f.outcome = "returned" => (f.result.success => f.result.source # "json")
              /\ (f.pc = "done" /\ missing(f.bibPath)) =>
                   /\ f.used.bib = UnusedEntries
                   /\ f.outcome = "returned" /\ ~f.result.success)
  /\ [][\A p \in DOMAIN lk :
          /\ (/\ lk[p].pc = "jsonAccess" /\ lk'[p] # lk[p]
              /\ lk[p].jsonPath \in DOMAIN CACHE.json /\ ~Exists(fs[lk[p].jsonPath]))
               => /\ \E i \in 1..Len(lk'[p].errors) :
                       lk'[p].errors[i] = NotFoundError("JSON", lk[p].jsonPath)
                  /\ lk'[p].used.json = Unused
                  /\ lk'[p].pc # "jsonRead"
                  /\ Len(lk'[p].io) = Len(lk[p].io) + 1
                  /\ lk'[p].io[Len(lk'[p].io)].op = "access"
                  /\ CACHE' = CACHE
          /\ (/\ lk[p].pc = "bibAccess" /\ lk'[p] # lk[p]
              /\ lk[p].bibPath \in DOMAIN CACHE.bib /\ ~Exists(fs[lk[p].bibPath]))
               => /\ \E i \in 1..Len(lk'[p].errors) :
                       lk'[p].errors[i] = NotFoundError("BibTeX", lk[p].bibPath)
                  /\ lk'[p].used.bib = UnusedEntries
                  /\ lk'[p].pc = "done" /\ ~lk'[p].result.success
                  /\ Len(lk'[p].io) = Len(lk[p].io) + 1
                  /\ lk'[p].io[Len(lk'[p].io)].op = "access"
                  /\ CACHE' = CACHE]_vars

\* A lookup has ended with the not-found error for the JSON export, whose
\* content is still cached and would have matched its query.
C18_Witness ==
  \E p \in DOMAIN lk :
    LET f == lk[p]
    IN  /\ f.pc = "done" /\ f.outcome = "returned" /\ ~f.result.success
        /\ f.jsonPath \in DOMAIN CACHE.json
        /\ ~Exists(fs[f.jsonPath])
        /\ JsonMatch(f, CACHE.json[f.jsonPath]) # Null
        /\ f.result.errors[1] = NotFoundError("JSON", f.jsonPath)
        /\ f.used.json = Unused

\* C11 as stated: no lookup ends by throwing or rejecting: every lookup that
\* has ended, whatever string it was asked with and whatever the configured
\* files held, returned a success result or { success: false, errors }.
C11_NeverRaises ==
  \A p \in DOMAIN lk :
    LET f == lk[p]
    IN  f.pc = "done" =>
          /\ f.outcome = "returned"
          /\ (f.result.success \/ DOMAIN f.result = {"success", "errors"})

(***************************************************************************)
(* Properties of the matching (SpecQuery)                                  *)
(***************************************************************************)
\* C8 as stated: a path lookup for an attachment path of a successful result
\* R, with the same export files, succeeds with a result of R's source.
C8_AttachmentRoundTrip ==
  \A p \in DOMAIN lk :
    LET f == lk[p]
    IN  (f.pc = "done" /\ f.origin # "none") =>
          /\ f.outcome = "returned"
          /\ f.result.success
          /\ f.result.source = f.origin

\* C9 as stated: where a configured, present export stores the absolute path
\* P, a path lookup asked with P, with P's spaces percent-encoded, with the
\* file URL of P or with P in backslashes succeeds.
C9_VariantEquivalence ==
  \A p \in DOMAIN lk :
    LET f == lk[p]
        stored == (IF Configured(f.jsonPath) THEN PathsStoredIn(fs[f.jsonPath]) ELSE <<>>)
                    \o (IF Configured(f.bibPath) THEN PathsStoredIn(fs[f.bibPath]) ELSE <<>>)
    IN  (f.pc = "done" /\ f.kind = "path" /\ f.origin = "none") =>
          \A i \in 1..Len(stored) :
            (\E k \in 1..4 : QueryForms(stored[i])[k] = f.query)
              => f.outcome = "returned" /\ f.result.success

\* C10: a citation-key lookup asked with q finds an entry whenever a
\* configured, present export holds an entry whose citation key k has
\* trim(lowercase(k)) = trim(lowercase(q)): it succeeds on the key, with the
\* stored key as the value matched, from the JSON export when that one holds
\* such an entry and from the BibTeX export otherwise.
C10_KeyMatchingNormalized ==
  \A p \in DOMAIN lk :
    LET f == lk[p]
        q == trim(toLowerCase(f.query))
        inJson == IF Configured(f.jsonPath) THEN KeysStoredIn(fs[f.jsonPath]) ELSE <<>>
        inBib == IF Configured(f.bibPath) THEN KeysStoredIn(fs[f.bibPath]) ELSE <<>>
        hit(keys) == \E i \in 1..Len(keys) : trim(toLowerCase(keys[i])) = q
        held(keys) == \E i \in 1..Len(keys) : keys[i] = f.result.matchValue
    IN  (f.pc = "done" /\ f.kind = "citationKey" /\ (hit(inJson) \/ hit(inBib))) =>
          /\ f.outcome = "returned"
          /\ f.result.success
          /\ f.result.matchType = "citationKey"
          /\ trim(toLowerCase(f.result.matchValue)) = q
          /\ f.result.source = (IF hit(inJson) THEN "json" ELSE "bib")
          /\ held(IF hit(inJson) THEN inJson ELSE inBib)

\* A query in capitals between a no-break space and a tab has found the
\* entry stored in lower case, in the BibTeX export.
C10_Witness ==
  \E p \in DOMAIN lk :
    LET f == lk[p]
    IN  /\ f.pc = "done" /\ f.outcome = "returned" /\ f.result.success
        /\ f.query = <<160>> \o Lit(<<"S", "M", "I", "T", "H", "2", "0", "2", "4", "D", "E", "E", "P">>) \o <<9>>
        /\ f.result.source = "bib"
        /\ f.result.matchValue = SmithKey

\* C14: for the path a lookup was asked for, generateFinderPathVariants
\* returns strings that normalizeComparisonString leaves as they are, and no
\* two elements of the list are equal.
C14_VariantsCanonicalAndDistinct ==
  \A p \in DOMAIN lk :
    LET f == lk[p]
        variants == generateFinderPathVariants(f.query)
    IN  (f.pc # "idle" /\ f.kind = "path" /\ variants # VariantsThrew) =>
          /\ \A i \in 1..Len(variants) : normalizeComparisonString(variants[i]) = variants[i]
          /\ \A i, j \in 1..Len(variants) : i # j => variants[i] # variants[j]

(***************************************************************************)
(* Properties of the citation-key matching (SpecKeys)                      *)
(***************************************************************************)
\* C13 as stated: the descriptor of a successful citation-key lookup has a
\* citationKey that equals the trimmed query key, letter case aside.
C13_DescriptorKeyIsQuery ==
  \A p \in DOMAIN lk :
    LET f == lk[p]
    IN  (/\ f.pc = "done" /\ f.kind = "citationKey" /\ f.outcome = "returned"
         /\ f.result.success)
          => /\ f.result.descriptor.citationKey # NullStr
             /\ toLowerCase(f.result.descriptor.citationKey) = toLowerCase(f.trimmedKey)

\* C13, amended: the value matched, which is what the entry holds in the
\* field matchedField names, equals the trimmed query key after trimming and
\* lower-casing; and the descriptor's citationKey equals the query, letter
\* case aside, when the match was made on the entry's own citation key: for
\* BibTeX the field "key", for JSON the first of citationKey, citationkey, id
\* that holds a non-blank string.
C13_MatchValueIsQuery ==
  \A p \in DOMAIN lk :
    LET f == lk[p]
        r == f.result
        ownField(item) ==
          CitationKeyFields[CHOOSE i \in 1..Len(CitationKeyFields) :
             /\ getFirstStringFromKeys(item, <<CitationKeyFields[i]>>) # NullStr
             /\ \A j \in 1..(i - 1) :
                  getFirstStringFromKeys(item, <<CitationKeyFields[j]>>) = NullStr]
    IN  (/\ f.pc = "done" /\ f.kind = "citationKey" /\ f.outcome = "returned"
         /\ r.success)
          => /\ r.matchType = "citationKey"
             /\ trim(toLowerCase(r.matchValue)) = toLowerCase(f.trimmedKey)
             /\ r.source = "json" =>
                  /\ \E i \in 1..Len(CitationKeyFields) : r.matchedField = CitationKeyFields[i]
                  /\ getProp(r.item, r.matchedField) = JString(r.matchValue)
                  /\ r.descriptor.citationKey = trim(getProp(r.item, ownField(r.item)).s)
                  /\ r.matchedField = ownField(r.item)
                       => toLowerCase(r.descriptor.citationKey) = toLowerCase(f.trimmedKey)
             /\ r.source = "bib" =>
                  /\ r.descriptor.citationKey = r.entry.key
                  /\ r.matchedField = Lit(<<"k", "e", "y">>)
                       => /\ r.matchValue = r.entry.key
                          /\ toLowerCase(r.entry.key) = toLowerCase(f.trimmedKey)
                  /\ r.matchedField # Lit(<<"k", "e", "y">>)
                       => /\ \E i \in 1..Len(BibCandidateFields) :
                                r.matchedField = BibCandidateFields[i]
                          /\ fieldValue(r.entry.fields, r.matchedField) = r.matchValue

\* A citation-key lookup has succeeded in the BibTeX export on the field id
\* of an entry whose own key is another one, and a lookup may equally have
\* succeeded in the JSON export on id where citationKey holds another key.
C13_Witness ==
  \E p \in DOMAIN lk :
    LET f == lk[p]
    IN  /\ f.pc = "done" /\ f.kind = "citationKey" /\ f.outcome = "returned"
        /\ f.result.success
        /\ f.result.matchedField = Lit(<<"i", "d">>)
        /\ f.result.matchValue = DoeAlias
        /\ toLowerCase(f.result.descriptor.citationKey) # toLowerCase(f.trimmedKey)

(***************************************************************************)
(* Properties of the traversal (SpecOrder)                                 *)
(***************************************************************************)
\* C15: a JSON path lookup returns the first entry of the export, in list
\* order, that holds a matching string; no member of that entry written
\* before the member the match was found under holds a matching string
\* (object keys in insertion order); propertyPath starts at that member and
\* matchedField is its last element.
C15_FirstMatchWins ==
  \A p \in DOMAIN lk :
    LET f == lk[p]
        r == f.result
        variants == generateFinderPathVariants(f.query)
        entries == getJsonEntries(fs[f.jsonPath].value)
        holdsMatch(value) == findPathInJsonValue(value, variants, <<>>) # Null
    IN  (/\ f.pc = "done" /\ f.kind = "path" /\ f.outcome = "returned"
         /\ r.success /\ r.source = "json")
          => /\ \E e \in 1..Len(entries) :
                  /\ entries[e] = r.item
                  /\ \A d \in 1..(e - 1) : entries[d].t \in {"object", "array"} => ~holdsMatch(entries[d])
             /\ r.propertyPath # <<>>
             /\ r.matchedField = r.propertyPath[Len(r.propertyPath)]
             /\ r.item.t = "object" =>
                  \E i \in 1..Len(r.item.o) :
                    /\ r.item.o[i].k = r.propertyPath[1]
                    /\ holdsMatch(r.item.o[i].v)
                    /\ \A j \in 1..(i - 1) : ~holdsMatch(r.item.o[j].v)

(***************************************************************************)
(* Properties of overlapping lookups (SpecOverlap)                         *)
(***************************************************************************)
\* C16: however the steps of two lookups against the same export files
\* interleave, the cache holds for a path what a single lookup caches for
\* it, the parsed content of the file, and the result of each finished
\* lookup is the one computed from that content.
C16_OverlapBenign ==
  LET parsedJson(path) == IF Readable(fs[path]) /\ JsonParses(fs[path])
                          THEN fs[path].value ELSE Null
      parsedBib(path) == IF Readable(fs[path]) THEN parseBibContent(fs[path].text)
                         ELSE NullEntries
      alone(f) ==
        LET jsonMatch == IF Configured(f.jsonPath) /\ Exists(fs[f.jsonPath])
                         THEN JsonMatch(f, parsedJson(f.jsonPath)) ELSE Null
            bibMatch == IF Configured(f.bibPath) /\ Exists(fs[f.bibPath])
                        THEN BibMatch(f, parsedBib(f.bibPath)) ELSE Null
        IN  IF jsonMatch # Null THEN jsonMatch ELSE bibMatch
  IN  /\ \A path \in DOMAIN CACHE.json :
           /\ Readable(fs[path]) /\ JsonParses(fs[path])
           /\ CACHE.json[path] = parsedJson(path)
      /\ \A path \in DOMAIN CACHE.bib :
           /\ Readable(fs[path])
           /\ CACHE.bib[path] = parsedBib(path)
      /\ \A p \in DOMAIN lk :
           LET f == lk[p]
           IN  f.pc = "done" =>
                 /\ f.outcome = "returned"
                 /\ f.used.json \in {Unused, parsedJson(f.jsonPath)}
                 /\ f.used.bib \in {UnusedEntries, parsedBib(f.bibPath)}
                 /\ IF alone(f) = Null THEN ~f.result.success
                    ELSE f.result = alone(f)

\* Both lookups have finished, each of them found the JSON export uncached
\* and read it, and the cache holds the path.
C16_Witness ==
  /\ \A p \in DOMAIN lk :
       /\ lk[p].pc = "done"
       /\ \E i \in 1..Len(lk[p].io) :
            /\ lk[p].io[i].op = "readFile"
            /\ lk[p].io[i].path = JsonFile
            /\ lk[p].io[i].ok
  /\ lk["p1"].kind # lk["p2"].kind
  /\ JsonFile \in DOMAIN CACHE.json
  /\ Cardinality(DOMAIN lk) = 2

(***************************************************************************)
(* Properties of the clear (SpecClear)                                     *)
(***************************************************************************)
\* C17: a lookup that resumes with content it read from disk before the
\* cache was cleared does not put that content into the cache: the step in
\* which it resumes leaves the cache as the clear, and whatever came after
\* the clear, left it.
C17_ClearNotUndone ==
  [][\A p \in DOMAIN lk :
       (/\ lk[p].pc \in {"jsonParse", "bibParse"} /\ lk'[p] # lk[p]
        /\ \E i \in 1..Len(lk[p].io) : lk[p].io[i].op = "clear")
         => CACHE' = CACHE]_vars

(***************************************************************************)
(* Properties of the tool (SpecRecords)                                    *)
(***************************************************************************)
\* C12 as stated: the devonthinkRecords of a successful
\* get_records_by_citation_key call never hold two records with the same
\* UUID.
C12_MergedByUuid ==
  \A p \in DOMAIN lk :
    LET f == lk[p]
    IN  (f.pc = "done" /\ f.kind = "tool" /\ f.result.success) =>
          \A i, j \in 1..Len(f.result.devonthinkRecords) :
            (i # j /\ f.result.devonthinkRecords[i].uuid # NullStr)
              => f.result.devonthinkRecords[i].uuid # f.result.devonthinkRecords[j].uuid
====
